---- MODULE Spec2Model ----
(***************************************************************************)
(* A model of UpgradeLens' compatibility engine (src/src/compatibility.js) *)
(* and of its plugin hook pipeline (src/src/plugin-manager.js).            *)
(*                                                                         *)
(* Strings that the code takes apart (declared ranges, version strings)    *)
(* are sequences of one-character strings, so that the cleaning regex and  *)
(* the semver parser are computed and not assumed.                         *)
(***************************************************************************)
EXTENDS Integers, Sequences, FiniteSets, TLC

\* ------------------------------------------------------------------------
\* Bounds of the model
\* ------------------------------------------------------------------------

\* the largest number of declared dependencies in a manifest
MaxDeps == 3

\* ------------------------------------------------------------------------
\* Characters, cleaning and semver
\* ------------------------------------------------------------------------

Digits == <<"0", "1", "2", "3", "4", "5", "6", "7", "8", "9">>

IsDigit(c) == \E d \in 1..10 : Digits[d] = c

DigitVal(c) == (CHOOSE d \in 1..10 : Digits[d] = c) - 1

\* version.replace(/[^\d.]/g, '')
CleanVersion(s) == SelectSeq(s, LAMBDA c : IsDigit(c) \/ c = ".")

RECURSIVE NumVal(_)
NumVal(cs) ==
  IF cs = << >> THEN 0
  ELSE 10 * NumVal(SubSeq(cs, 1, Len(cs) - 1)) + DigitVal(cs[Len(cs)])

\* semver's numeric identifier: 0|[1-9]\d*
IsNumericId(cs) ==
  /\ Len(cs) > 0
  /\ \A k \in 1..Len(cs) : IsDigit(cs[k])
  /\ (Len(cs) = 1 \/ cs[1] # "0")

DotPos(s) == {k \in 1..Len(s) : s[k] = "."}

\* the three dot-separated components of s (only meaningful with two dots)
Components(s) ==
  LET d1 == CHOOSE k \in DotPos(s) : \A m \in DotPos(s) : k <= m
      d2 == CHOOSE k \in DotPos(s) : \A m \in DotPos(s) : k >= m
  IN  <<SubSeq(s, 1, d1 - 1), SubSeq(s, d1 + 1, d2 - 1), SubSeq(s, d2 + 1, Len(s))>>

\* semver.valid(s) # null, for strings made of the characters of the model
\* (an optional leading "v" or "=" is accepted by the library and is part of
\* no string used here)
SemverValid(s) ==
  /\ Cardinality(DotPos(s)) = 2
  /\ \A k \in 1..3 : IsNumericId(Components(s)[k])

\* the <<major, minor, patch>> of a valid version
Parse(s) == [k \in 1..3 |-> NumVal(Components(s)[k])]

\* compareMain of two parsed versions: -1, 0 or 1
CompareParsed(a, b) ==
  IF a[1] # b[1] THEN (IF a[1] < b[1] THEN -1 ELSE 1)
  ELSE IF a[2] # b[2] THEN (IF a[2] < b[2] THEN -1 ELSE 1)
  ELSE IF a[3] # b[3] THEN (IF a[3] < b[3] THEN -1 ELSE 1)
  ELSE 0

\* semver.compare(a, b) of two valid version strings
SemverCompare(a, b) == CompareParsed(Parse(a), Parse(b))

\* semver.gt / gte / lt / major / minor throw a TypeError on an invalid version
SemverThrows(s) == ~SemverValid(s)

Abs(x) == IF x < 0 THEN -x ELSE x

\* A peer range is [op, v]: v a parsed version, op one of the comparators
\* below; "invalid" stands for a string semver cannot parse as a range.
RangeOps == {">=", "^", "=", "<", "invalid"}

\* semver.satisfies(version, range): false (never a throw) when the version
\* or the range is invalid
SemverSatisfies(s, r) ==
  /\ SemverValid(s)
  /\ r.op # "invalid"
  /\ LET v == Parse(s)
         c == CompareParsed(v, r.v)
     IN  CASE r.op = ">=" -> c >= 0
           [] r.op = "<"  -> c < 0
           [] r.op = "="  -> c = 0
           [] r.op = "^"  ->
                /\ c >= 0
                /\ IF r.v[1] > 0 THEN v[1] = r.v[1]
                   ELSE IF r.v[2] > 0 THEN v[1] = 0 /\ v[2] = r.v[2]
                   ELSE v[1] = 0 /\ v[2] = 0 /\ v[3] = r.v[3]


\* ------------------------------------------------------------------------
\* Package metadata (the registry document of getPackageInfo)
\* ------------------------------------------------------------------------

Names == {"react", "react-dom", "eslint", "eslint-plugin-react"}

NoRange == [op |-> "none", v |-> <<0, 0, 0>>]

NoPeers == [n \in Names |-> NoRange]

NoString == << >>

\* details.versions[key]: the entry stored under the exact key, or NoInfo.
\* A document is [hasVersions, versions]; versions is the sequence of
\* [key, peers] in the key order of Object.keys.
NoInfo == [key |-> NoString, peers |-> NoPeers, found |-> FALSE]

VersionEntry(details, key) ==
  IF \E k \in 1..Len(details.versions) : details.versions[k].key = key
  THEN LET k == CHOOSE k \in 1..Len(details.versions) : details.versions[k].key = key
       IN  [key |-> key, peers |-> details.versions[k].peers, found |-> TRUE]
  ELSE NoInfo

\* the loop of findClosestVersion over keys k..Len, with its two locals
RECURSIVE ClosestLoop(_, _, _, _, _)
ClosestLoop(keys, version, k, closest, minDiff) ==
  IF k > Len(keys) THEN closest
  ELSE IF SemverValid(keys[k]) /\ SemverValid(version)
            /\ Abs(SemverCompare(keys[k], version)) < minDiff
       THEN ClosestLoop(keys, version, k + 1,
                        [found |-> TRUE, key |-> keys[k]],
                        Abs(SemverCompare(keys[k], version)))
       ELSE ClosestLoop(keys, version, k + 1, closest, minDiff)

\* Infinity, for differences that are 0 or 1
InfiniteDiff == 2

\* the closest version looked up without asking whether the requested
\* version is valid: the first key stands in for it
findClosestVersionUnchecked(details, version) ==
  IF ~details.hasVersions \/ Len(details.versions) = 0 THEN NoInfo
  ELSE IF SemverValid(version)
  THEN LET keys == [k \in 1..Len(details.versions) |-> details.versions[k].key]
           c == ClosestLoop(keys, version, 1, [found |-> FALSE, key |-> NoString],
                            InfiniteDiff)
       IN  IF c.found THEN VersionEntry(details, c.key) ELSE NoInfo
  ELSE VersionEntry(details, details.versions[1].key)

findClosestVersion(details, version) ==
  IF ~details.hasVersions THEN NoInfo
  ELSE LET keys == [k \in 1..Len(details.versions) |-> details.versions[k].key]
           c == ClosestLoop(keys, version, 1, [found |-> FALSE, key |-> NoString],
                            InfiniteDiff)
       IN  IF c.found THEN VersionEntry(details, c.key) ELSE NoInfo

\* Array.prototype.sort(semver.compare) as an insertion sort
RECURSIVE InsertSorted(_, _)
InsertSorted(sorted, x) ==
  IF sorted = << >> THEN <<x>>
  ELSE IF SemverCompare(x, sorted[Len(sorted)]) >= 0 THEN Append(sorted, x)
  ELSE Append(InsertSorted(SubSeq(sorted, 1, Len(sorted) - 1), x), sorted[Len(sorted)])

\* the keys left in the order of Object.keys
KeyOrder(vs) == vs

RECURSIVE SortVersions(_)
SortVersions(vs) ==
  IF vs = << >> THEN << >>
  ELSE InsertSorted(SortVersions(SubSeq(vs, 1, Len(vs) - 1)), vs[Len(vs)])

NoVersion == [found |-> FALSE, key |-> NoString]

findCompatibleVersion(details, requirement) ==
  IF ~details.hasVersions THEN NoVersion
  ELSE LET keys == [k \in 1..Len(details.versions) |-> details.versions[k].key]
           compatibleVersions ==
             SelectSeq(keys, LAMBDA v : SemverValid(v) /\ SemverSatisfies(v, requirement))
       IN  IF Len(compatibleVersions) > 0
           THEN [found |-> TRUE,
                 key |-> SortVersions(compatibleVersions)[Len(compatibleVersions)]]
           ELSE NoVersion


\* ------------------------------------------------------------------------
\* The known-issue table
\* ------------------------------------------------------------------------

V_8_0_0 == <<"8", ".", "0", ".", "0">>

V_7_28_0 == <<"7", ".", "2", "8", ".", "0">>

knownIssues ==
  << [packages |-> <<"react", "react-dom">>, rule |-> "react"],
     [packages |-> <<"eslint", "eslint-plugin-react">>, rule |-> "eslint"] >>

\* issue.condition(v1, v2): "true", "false", or "throw" when a semver call
\* that the expression reaches is given an invalid version
RuleCondition(rule, v1, v2) ==
  IF rule = "react"
  THEN IF SemverThrows(v1) \/ SemverThrows(v2) THEN "throw"
       ELSE IF Parse(v1)[1] # Parse(v2)[1] \/ Parse(v1)[2] # Parse(v2)[2]
            THEN "true" ELSE "false"
  ELSE \* semver.gte(eslintVersion, '8.0.0') && semver.lt(pluginVersion, '7.28.0')
       IF SemverThrows(v1) THEN "throw"
       ELSE IF SemverCompare(v1, V_8_0_0) < 0 THEN "false"
       ELSE IF SemverThrows(v2) THEN "throw"
       ELSE IF SemverCompare(v2, V_7_28_0) < 0 THEN "true" ELSE "false"

\* the recommendation that takes the older of the two React versions
RuleRecommendationOlder(rule, v1, v2) ==
  IF rule = "react"
  THEN LET older == IF SemverCompare(v1, v2) < 0 THEN v1 ELSE v2
       IN  <<older, older>>
  ELSE IF SemverCompare(v1, V_8_0_0) >= 0 THEN <<v1, V_7_28_0>> ELSE <<v1, v2>>

\* issue.getRecommendation(v1, v2), called only after the condition returned
\* true: <<the version for packages[0], the version for packages[1]>>
RuleRecommendation(rule, v1, v2) ==
  IF rule = "react"
  THEN LET newer == IF SemverCompare(v1, v2) > 0 THEN v1 ELSE v2
       IN  <<newer, newer>>
  ELSE IF SemverCompare(v1, V_8_0_0) >= 0 THEN <<v1, V_7_28_0>> ELSE <<v1, v2>>

NoIssue == [kind |-> "null", rule |-> "none", rec1 |-> NoString, rec2 |-> NoString]

\* lines 400-416, one rule of the table: the issue it returns, "throw", or
\* NoIssue when the rule is for another pair or its condition is false
RuleVerdict(issue, dep1, version1, dep2, version2) ==
  LET pkg1 == issue.packages[1]
      pkg2 == issue.packages[2]
      v1 == IF dep1 = pkg1 THEN version1 ELSE version2
      v2 == IF dep1 = pkg1 THEN version2 ELSE version1
      recommendation == RuleRecommendation(issue.rule, v1, v2)
  IN  IF (dep1 = pkg1 /\ dep2 = pkg2) \/ (dep1 = pkg2 /\ dep2 = pkg1)
      THEN CASE RuleCondition(issue.rule, v1, v2) = "throw" ->
                  [NoIssue EXCEPT !.kind = "throw"]
             [] RuleCondition(issue.rule, v1, v2) = "true" ->
                  [kind |-> "issue", rule |-> issue.rule,
                   rec1 |-> IF dep1 = pkg1 THEN recommendation[1]
                            ELSE recommendation[2],
                   rec2 |-> IF dep2 = pkg1 THEN recommendation[1]
                            ELSE recommendation[2]]
             [] OTHER -> NoIssue
      ELSE NoIssue

\* the loop going through every rule, a later issue replacing an earlier one
LastVerdict(verdict, rest) == IF rest.kind # "null" THEN rest ELSE verdict

\* lines 406-415: the loop returns at the first rule that gives an issue (or
\* throws) and goes on to the rules after it otherwise
FirstVerdict(verdict, rest) == IF verdict.kind # "null" THEN verdict ELSE rest

\* the loop of lines 399-417 over the table, from rule k on
RECURSIVE KnownIssueLoop(_, _, _, _, _, _)
KnownIssueLoop(table, k, dep1, version1, dep2, version2) ==
  IF k > Len(table) THEN NoIssue
  ELSE FirstVerdict(RuleVerdict(table[k], dep1, version1, dep2, version2),
                    KnownIssueLoop(table, k + 1, dep1, version1, dep2, version2))

checkKnownCompatibilityIssues(dep1, version1, dep2, version2) ==
  KnownIssueLoop(knownIssues, 1, dep1, version1, dep2, version2)

\* ------------------------------------------------------------------------
\* checkPairCompatibility and checkVersionCompatibility
\* ------------------------------------------------------------------------

NoReason ==
  [kind |-> "none", requirer |-> "", required |-> "", range |-> NoRange,
   current |-> NoString]

\* a reason that names the two packages the wrong way round
PeerReasonSwapped(requirer, required, range, current) ==
  [kind |-> "peer", requirer |-> required, required |-> requirer, range |-> range,
   current |-> current]

\* `X 需要 Y@range, 但当前版本是 current`
PeerReason(requirer, required, range, current) ==
  [kind |-> "peer", requirer |-> requirer, required |-> required, range |-> range,
   current |-> current]

\* the fetched document of dep, or NoDetails (undefined)
NoDetails == [fetched |-> FALSE, hasVersions |-> FALSE, versions |-> << >>]

DetailsOf(dependencyDetails, dep) ==
  IF dep \in DOMAIN dependencyDetails THEN dependencyDetails[dep] ELSE NoDetails

\* details.versions[clean] || findClosestVersion(details, clean)
ResolveVersionInfo(details, clean) ==
  IF VersionEntry(details, clean).found THEN VersionEntry(details, clean)
  ELSE findClosestVersion(details, clean)

BaseResult(dep1, clean1, dep2, clean2) ==
  [threw |-> FALSE, pair |-> <<dep1, clean1, dep2, clean2>>, compatible |-> TRUE,
   reason |-> NoReason, hasRecommendation |-> FALSE,
   rec1 |-> NoString, rec2 |-> NoString]

\* lines 155-218 of checkPairCompatibility: both documents were fetched
PairCheckWithDetails(dep1, version1, dep2, version2, dependencyDetails) ==
  LET cleanVersion1 == CleanVersion(version1)
      cleanVersion2 == CleanVersion(version2)
      result == BaseResult(dep1, cleanVersion1, dep2, cleanVersion2)
      details1 == DetailsOf(dependencyDetails, dep1)
      details2 == DetailsOf(dependencyDetails, dep2)
      version1Info == ResolveVersionInfo(details1, cleanVersion1)
      version2Info == ResolveVersionInfo(details2, cleanVersion2)
      peerDeps1 == version1Info.peers
      peerDeps2 == version2Info.peers
      compatible1 == findCompatibleVersion(details1, peerDeps2[dep1])
      compatible2 == findCompatibleVersion(details2, peerDeps1[dep2])
      knownIssue == checkKnownCompatibilityIssues(dep1, cleanVersion1, dep2, cleanVersion2)
  IN  \* details.versions[...] of a document without versions is a TypeError
      IF ~details1.hasVersions \/ ~details2.hasVersions
      THEN [result EXCEPT !.threw = TRUE]
      ELSE IF ~version1Info.found \/ ~version2Info.found
      THEN [result EXCEPT !.compatible = FALSE, !.reason.kind = "no-version-info"]
      ELSE IF peerDeps2[dep1] # NoRange /\ ~SemverSatisfies(cleanVersion1, peerDeps2[dep1])
      THEN [result EXCEPT
              !.compatible = FALSE,
              !.reason = PeerReason(dep2, dep1, peerDeps2[dep1], cleanVersion1),
              !.hasRecommendation = compatible1.found,
              !.rec1 = IF compatible1.found THEN compatible1.key ELSE NoString,
              !.rec2 = IF compatible1.found THEN cleanVersion2 ELSE NoString]
      ELSE IF peerDeps1[dep2] # NoRange /\ ~SemverSatisfies(cleanVersion2, peerDeps1[dep2])
      THEN [result EXCEPT
              !.compatible = FALSE,
              !.reason = PeerReason(dep1, dep2, peerDeps1[dep2], cleanVersion2),
              !.hasRecommendation = compatible2.found,
              !.rec1 = IF compatible2.found THEN cleanVersion1 ELSE NoString,
              !.rec2 = IF compatible2.found THEN compatible2.key ELSE NoString]
      ELSE IF knownIssue.kind = "throw"
      THEN [result EXCEPT !.threw = TRUE]
      ELSE IF knownIssue.kind = "issue"
      THEN [result EXCEPT
              !.compatible = FALSE,
              !.reason.kind = knownIssue.rule,
              !.hasRecommendation = TRUE,
              !.rec1 = knownIssue.rec1,
              !.rec2 = knownIssue.rec2]
      ELSE result

\* checkPairCompatibility answering as checkVersionCompatibility does when a
\* document is missing: "cannot tell, compatible by default"
checkPairCompatibilityLenient(dep1, version1, dep2, version2, dependencyDetails) ==
  IF ~DetailsOf(dependencyDetails, dep1).fetched
       \/ ~DetailsOf(dependencyDetails, dep2).fetched
  THEN BaseResult(dep1, CleanVersion(version1), dep2, CleanVersion(version2))
  ELSE PairCheckWithDetails(dep1, version1, dep2, version2, dependencyDetails)

checkPairCompatibility(dep1, version1, dep2, version2, dependencyDetails) ==
  IF ~DetailsOf(dependencyDetails, dep1).fetched
       \/ ~DetailsOf(dependencyDetails, dep2).fetched
  THEN [BaseResult(dep1, CleanVersion(version1), dep2, CleanVersion(version2))
          EXCEPT !.compatible = FALSE, !.reason.kind = "no-details"]
  ELSE PairCheckWithDetails(dep1, version1, dep2, version2, dependencyDetails)

\* the upgrade check answering as the pair check does, known-issue rules and
\* missing documents included
checkVersionCompatibilityAsPair(dep1, version1, dep2, version2, dependencyDetails) ==
  [threw |-> checkPairCompatibility(dep1, version1, dep2, version2,
                                    dependencyDetails).threw,
   compatible |-> checkPairCompatibility(dep1, version1, dep2, version2,
                                         dependencyDetails).compatible,
   reason |-> checkPairCompatibility(dep1, version1, dep2, version2,
                                     dependencyDetails).reason]

\* the result of checkVersionCompatibility: [threw, compatible, reason]
checkVersionCompatibility(dep1, version1, dep2, version2, dependencyDetails) ==
  LET cleanVersion1 == CleanVersion(version1)
      cleanVersion2 == CleanVersion(version2)
      result == [threw |-> FALSE, compatible |-> TRUE, reason |-> NoReason]
      details1 == DetailsOf(dependencyDetails, dep1)
      details2 == DetailsOf(dependencyDetails, dep2)
      version1Info == ResolveVersionInfo(details1, cleanVersion1)
      version2Info == ResolveVersionInfo(details2, cleanVersion2)
      peerDeps1 == version1Info.peers
      peerDeps2 == version2Info.peers
  IN  IF ~details1.fetched \/ ~details2.fetched THEN result
      ELSE IF ~details1.hasVersions \/ ~details2.hasVersions
      THEN [result EXCEPT !.threw = TRUE]
      ELSE IF ~version1Info.found \/ ~version2Info.found THEN result
      ELSE IF peerDeps2[dep1] # NoRange /\ ~SemverSatisfies(cleanVersion1, peerDeps2[dep1])
      THEN [result EXCEPT
              !.compatible = FALSE,
              !.reason = PeerReason(dep2, dep1, peerDeps2[dep1], cleanVersion1)]
      ELSE IF peerDeps1[dep2] # NoRange /\ ~SemverSatisfies(cleanVersion2, peerDeps1[dep2])
      THEN [result EXCEPT
              !.compatible = FALSE,
              !.reason = PeerReason(dep1, dep2, peerDeps1[dep2], cleanVersion2)]
      ELSE result


\* ------------------------------------------------------------------------
\* Inputs: the manifest, the registry and the latest-version table
\* ------------------------------------------------------------------------

\* the declared ranges a manifest may give a dependency ("1.x" and "latest"
\* clean to strings that are no semantic version)
DeclaredRanges(name) ==
  CASE name = "react" -> {<<"2", ".", "0", ".", "0">>, <<"1", ".", "x">>}
    [] name = "react-dom" -> {<<"^", "1", ".", "0", ".", "0">>, <<"~", "2", ".", "1", ".", "0">>}
    [] name = "eslint" -> {<<"^", "8", ".", "0", ".", "0">>, <<"l", "a", "t", "e", "s", "t">>}
    [] OTHER -> {<<">", "=", "7", ".", "2", "7", ".", "0">>, <<"^", "7", ".", "2", "8", ".", "0">>}

Entry(key, peers) == [key |-> key, peers |-> peers]

Peer(name, op, v) == [NoPeers EXCEPT ![name] = [op |-> op, v |-> v]]

Document(versions) == [fetched |-> TRUE, hasVersions |-> TRUE, versions |-> versions]

\* the registry document of each package: response.data of getPackageInfo
RegistryDocument(name) ==
  CASE name = "react" ->
         Document(<< Entry(<<"1", ".", "0", ".", "0">>, NoPeers),
                     Entry(<<"2", ".", "1", ".", "0">>, NoPeers),
                     Entry(<<"1", ".", "1", ".", "0">>, NoPeers),
                     Entry(<<"2", ".", "0", ".", "0">>, NoPeers) >>)
    [] name = "react-dom" ->
         Document(<< Entry(<<"1", ".", "0", ".", "0">>, Peer("react", "^", <<1, 0, 0>>)),
                     Entry(<<"2", ".", "1", ".", "0">>, Peer("react", "^", <<2, 0, 0>>)) >>)
    [] name = "eslint" ->
         Document(<< Entry(<<"8", ".", "0", ".", "0">>, NoPeers),
                     Entry(<<"9", ".", "0", ".", "0">>, NoPeers) >>)
    [] OTHER ->
         Document(<< Entry(<<"7", ".", "2", "7", ".", "0">>, Peer("eslint", ">=", <<7, 0, 0>>)),
                     Entry(<<"7", ".", "2", "8", ".", "0">>, Peer("eslint", "^", <<8, 0, 0>>)) >>)

\* dist-tags.latest of each package
LatestTag(name) ==
  CASE name \in {"react", "react-dom"} -> <<"2", ".", "1", ".", "0">>
    [] name = "eslint" -> <<"9", ".", "0", ".", "0">>
    [] OTHER -> <<"7", ".", "2", "8", ".", "0">>

\* the names in the alphabetical order npm writes them in
NameOrder == <<"eslint", "eslint-plugin-react", "react", "react-dom">>

\* the names at the positions ks of NameOrder, ascending
RECURSIVE Ascending(_, _)
Ascending(ks, k) ==
  IF k > Len(NameOrder) THEN << >>
  ELSE IF k \in ks THEN <<NameOrder[k]>> \o Ascending(ks, k + 1)
  ELSE Ascending(ks, k + 1)

Reverse(q) == [k \in 1..Len(q) |-> q[Len(q) + 1 - k]]

\* the key orders of a manifest with n names: alphabetical or reversed, so
\* that every two names meet in both orders
NameSeqs(n) ==
  UNION { {Ascending(ks, 1), Reverse(Ascending(ks, 1))} :
            ks \in {x \in SUBSET (1..Len(NameOrder)) : Cardinality(x) = n} }

\* the manifests with the names q: package.json dependencies, in key order
ManifestsOf(q) ==
  { [k \in 1..Len(q) |-> [name |-> q[k], range |-> r[k]]] :
      r \in {rr \in [1..Len(q) -> UNION {DeclaredRanges(x) : x \in Names}] :
               \A k \in 1..Len(q) : rr[k] \in DeclaredRanges(q[k])} }

\* getPackageInfo rejects for the names in failing and resolves for the others
ProviderOf(failing) ==
  [n \in Names |->
     IF n \in failing
     THEN [ok |-> FALSE, data |-> NoDetails, message |-> "ETIMEDOUT"]
     ELSE [ok |-> TRUE, data |-> RegistryDocument(n), message |-> ""]]

\* ---- the inputs of the two-package runs ----

\* the most versions a generated registry document holds
MaxVersions == 2

\* the versions a generated document of the package draws its keys from
VersionPool(name) ==
  CASE name \in {"react", "react-dom"} ->
         {<<"1", ".", "0", ".", "0">>, <<"1", ".", "1", ".", "0">>, <<"2", ".", "0", ".", "0">>}
    [] name = "eslint" -> {<<"7", ".", "0", ".", "0">>, <<"8", ".", "0", ".", "0">>, <<"9", ".", "0", ".", "0">>}
    [] OTHER -> {<<"7", ".", "2", "7", ".", "0">>, <<"7", ".", "2", "8", ".", "0">>, <<"8", ".", "0", ".", "0">>}

\* the declared ranges of the two-package manifests
PairRanges(name) ==
  CASE name \in {"react", "react-dom"} ->
         {<<"^", "1", ".", "0", ".", "0">>, <<"~", "1", ".", "1", ".", "0">>,
          <<"2", ".", "0", ".", "0">>}
    [] name = "eslint" -> {<<"^", "7", ".", "0", ".", "0">>, <<"8", ".", "0", ".", "0">>,
                           <<"l", "a", "t", "e", "s", "t">>}
    [] OTHER -> {<<"^", "7", ".", "2", "7", ".", "0">>, <<"7", ".", "2", "8", ".", "0">>}

\* the peer range a version of the package may declare on the other one
PeerDeclared(name) ==
  CASE name = "react" -> Peer("react-dom", ">=", <<1, 1, 0>>)
    [] name = "react-dom" -> Peer("react", "^", <<1, 0, 0>>)
    [] name = "eslint" -> Peer("eslint-plugin-react", "invalid", <<0, 0, 0>>)
    [] OTHER -> Peer("eslint", "^", <<8, 0, 0>>)

\* the entries k.. of a document with the keys vs, in this order; the
\* versions at the positions in declaring carry the peer range
RECURSIVE EntriesOf(_, _, _, _)
EntriesOf(name, vs, declaring, k) ==
  IF k > Len(vs) THEN << >>
  ELSE <<Entry(vs[k], IF k \in declaring THEN PeerDeclared(name) ELSE NoPeers)>>
       \o EntriesOf(name, vs, declaring, k + 1)

DocumentsWithKeys(name, vs) ==
  { Document(EntriesOf(name, vs, declaring, 1)) : declaring \in {{}, 1..Len(vs)} }

\* the registry documents of a two-package run: up to MaxVersions keys of
\* the pool in any order, with the peer range on every version or on none
PairDocuments(name) ==
  UNION { DocumentsWithKeys(name, vs) :
            vs \in UNION { {q \in [1..n -> VersionPool(name)] :
                              \A a, b \in 1..n : a # b => q[a] # q[b]} :
                           n \in 1..MaxVersions } }

\* getPackageInfo of a two-package run: a rejection, a document without
\* versions (an unpublished package), or a generated document
PairOutcomes(name) ==
  { [ok |-> FALSE, data |-> NoDetails, message |-> "ETIMEDOUT"],
    [ok |-> TRUE, data |-> [fetched |-> TRUE, hasVersions |-> FALSE, versions |-> << >>],
     message |-> ""] }
  \cup { [ok |-> TRUE, data |-> d, message |-> ""] : d \in PairDocuments(name) }

\* the two-package manifests: a rule pair in either order
PairNameSeqs ==
  { <<"react", "react-dom">>, <<"react-dom", "react">>,
    <<"eslint", "eslint-plugin-react">>, <<"eslint-plugin-react", "eslint">> }

\* analyzeProject: one latestVersions entry per dependency whose registry
\* request succeeded (the set kept), in manifest order
RECURSIVE LatestTable(_, _, _)
LatestTable(manifest, kept, k) ==
  IF k > Len(manifest) THEN << >>
  ELSE LET rest == LatestTable(manifest, kept, k + 1)
           entry == [name |-> manifest[k].name,
                     current |-> CleanVersion(manifest[k].range),
                     latest |-> LatestTag(manifest[k].name)]
       IN  IF k \in kept THEN <<entry>> \o rest ELSE rest

\* ------------------------------------------------------------------------
\* State of one checkCompatibility call
\* ------------------------------------------------------------------------

VARIABLES
  dependencies,       \* projectInfo.dependencies: sequence of [name, range]
  latestVersions,     \* projectInfo.latestVersions: sequence of [name, current, latest]
  provider,           \* what getPackageInfo does for each name
  pc,                 \* "fetch", "pairs", "upgrade", "done" or "threw"
  exception,          \* what the call threw: "none", "pair-check", "upgrade-analysis"
  idx,                \* the position of the running loop
  dependencyDetails,  \* name -> fetched document
  dependencyPairs,    \* sequence of <<dep1, dep2>>
  compatible,         \* compatibilityResults.compatible
  incompatible,       \* compatibilityResults.incompatible
  unknown,            \* compatibilityResults.unknown
  recommendations,    \* compatibilityResults.recommendations: name -> sequence
  upgradeAnalysis     \* compatibilityResults.upgradeAnalysis: sequence of entries

engineVars ==
  <<dependencies, latestVersions, provider, pc, exception, idx, dependencyDetails,
    dependencyPairs, compatible, incompatible, unknown, recommendations,
    upgradeAnalysis>>

\* ------------------------------------------------------------------------
\* State of the PluginManager (plugin-manager.js) and of its surroundings
\* ------------------------------------------------------------------------

VARIABLES
  persisted,     \* plugins/plugin-config.json as it stands on disk
  pluginDir,     \* the plugin files of the plugin directory: file -> module
  config,        \* this.config
  globalConfig,  \* this.globalConfig
  plugins,       \* this.plugins: plugin name -> the file it was loaded from
  hooks,         \* this.hooks: hook name -> sequence of callbacks
  op,            \* the manager call in progress: "idle", "loading", "running"
  loadIdx,       \* the position of the loop of loadAllPlugins
  run,           \* the locals of the executeHook call in progress
  heap,          \* the contents of the data objects, by reference
  late,          \* callbacks that timed out and are still at work
  invoked,       \* log: the callbacks called in this run, with what they got
  instantiated,  \* log: the files whose class was constructed
  runs,          \* how many executeHook calls were made
  loads          \* how many load calls were made

managerVars ==
  <<persisted, pluginDir, config, globalConfig, plugins, hooks, op, loadIdx, run,
    heap, late, invoked, instantiated, runs, loads>>

\* the hook names of plugin-interface.js that the model registers under
HookNames == {"before-analyze", "format-report"}

\* the plugin files of the plugin directory, in readdir order
PluginFiles == <<"example-plugin", "react-ecosystem-plugin">>

\* undefined, among the references 1, 2, ... to data objects
Undefined == 0

NoHandler == [id |-> 0, kind |-> "none", owner |-> "none"]

NoRun ==
  [hook |-> "none", data |-> Undefined, k |-> 0, result |-> Undefined,
   phase |-> "idle", callback |-> NoHandler, input |-> Undefined, elapsed |-> 0,
   error |-> "none", detached |-> FALSE]

\* the global section of plugin-config.json, the one PluginCLI.loadConfig
\* writes (plugin-cli.js lines 267-274): absent, or set by the user
NoGlobal == [present |-> FALSE, timeout |-> Undefined, failOnPluginError |-> FALSE]

UserGlobal == [present |-> TRUE, timeout |-> 1000, failOnPluginError |-> TRUE]

NoFile == [present |-> FALSE, hasGlobalConfig |-> FALSE, failOnPluginError |-> FALSE,
           global |-> NoGlobal, plugins |-> [f \in {} |-> "true"]]

\* the constructor, lines 16-26
ManagerStart ==
  /\ config = [loaded |-> FALSE, plugins |-> [f \in {} |-> "true"]]
  /\ globalConfig = [pluginTimeout |-> 5000, failOnPluginError |-> FALSE,
                     timeout |-> Undefined]
  /\ plugins = << >>
  /\ hooks = [h \in {} |-> << >>]
  /\ op = "idle"
  /\ loadIdx = 0
  /\ run = NoRun
  /\ heap = << >>
  /\ late = {}
  /\ invoked = << >>
  /\ instantiated = {}
  /\ runs = 0
  /\ loads = 0

\* a run of the engine alone: no configuration file, an empty plugin directory
NoPlugins ==
  /\ persisted = NoFile
  /\ pluginDir = [f \in {} |-> 0]
  /\ ManagerStart

\* ------------------------------------------------------------------------
\* State around the engine
\* ------------------------------------------------------------------------

VARIABLES
  scan,     \* a checkKnownCompatibilityIssues call: its table, arguments and result
  earlier,  \* the report of the checkCompatibility call made before this one
  program   \* the run of the program, index.js: its position and its locals

NoScan ==
  [called |-> FALSE, table |-> << >>, dep1 |-> "", version1 |-> NoString, dep2 |-> "",
   version2 |-> NoString, result |-> NoIssue]

NoReport == [made |-> FALSE]

\* no call was made yet
\* undefined, among the values the program hands to executeHook
NoValue == [defined |-> FALSE]

\* the program at a given position, with nothing done
ProgramAt(stage) ==
  [stage |-> stage, projectData |-> NoValue, analysed |-> "", checkData |-> NoValue,
   checked |-> NoValue, executed |-> << >>]

NoCalls ==
  /\ scan = NoScan
  /\ earlier = NoReport
  /\ program = ProgramAt("none")

vars == <<engineVars, managerVars, scan, earlier, program>>

RangeOf(dep) ==
  LET k == CHOOSE k \in 1..Len(dependencies) : dependencies[k].name = dep
  IN  dependencies[k].range

\* lines 13-18 and 21: the empty report
EngineStart ==
  /\ pc = "fetch"
  /\ exception = "none"
  /\ idx = 1
  /\ dependencyDetails = << >>
  /\ dependencyPairs = << >>
  /\ compatible = << >>
  /\ incompatible = << >>
  /\ unknown = << >>
  /\ recommendations = [n \in Names |-> << >>]
  /\ upgradeAnalysis = << >>

Init ==
  /\ \E n \in 0..MaxDeps : \E q \in NameSeqs(n) :
       /\ dependencies \in ManifestsOf(q)
       /\ \E failing \in SUBSET {q[k] : k \in 1..n} : provider = ProviderOf(failing)
       /\ \E kept \in SUBSET (1..n) : latestVersions = LatestTable(dependencies, kept, 1)
  /\ EngineStart
  /\ NoPlugins
  /\ NoCalls

\* one iteration of the loop of lines 22-34
FetchPackage ==
  /\ pc = "fetch"
  /\ idx <= Len(dependencies)
  /\ LET dep == dependencies[idx].name
     IN  IF provider[dep].ok
         THEN /\ dependencyDetails' =
                   [n \in DOMAIN dependencyDetails \cup {dep} |->
                      IF n = dep THEN provider[dep].data ELSE dependencyDetails[n]]
              /\ UNCHANGED unknown
         ELSE /\ unknown' = Append(unknown, [name |-> dep, reason |-> provider[dep].message])
              /\ UNCHANGED dependencyDetails
  /\ idx' = idx + 1
  /\ UNCHANGED <<managerVars, scan, earlier, program>>
  /\ UNCHANGED <<dependencies, latestVersions, provider, pc, exception,
                 dependencyPairs, compatible, incompatible, recommendations,
                 upgradeAnalysis>>

\* the pair generation with the inner loop starting at i instead of i + 1
RECURSIVE PairsFromSelf(_, _, _)
PairsFromSelf(depNames, i, j) ==
  IF i > Len(depNames) THEN << >>
  ELSE IF j > Len(depNames) THEN PairsFromSelf(depNames, i + 1, i + 1)
  ELSE <<(<<depNames[i], depNames[j]>>)>> \o PairsFromSelf(depNames, i, j + 1)

\* the pairs <<depNames[i], depNames[j]>>, i < j, in the order of lines 43-47
RECURSIVE PairsFrom(_, _, _)
PairsFrom(depNames, i, j) ==
  IF i > Len(depNames) THEN << >>
  ELSE IF j > Len(depNames) THEN PairsFrom(depNames, i + 1, i + 2)
  ELSE <<(<<depNames[i], depNames[j]>>)>> \o PairsFrom(depNames, i, j + 1)

\* lines 39-47, once the fetch loop is over
GeneratePairs ==
  /\ pc = "fetch"
  /\ idx > Len(dependencies)
  /\ dependencyPairs' =
       PairsFrom([k \in 1..Len(dependencies) |-> dependencies[k].name], 1, 2)
  /\ pc' = "pairs"
  /\ idx' = 1
  /\ UNCHANGED <<managerVars, scan, earlier, program>>
  /\ UNCHANGED <<dependencies, latestVersions, provider, exception, dependencyDetails,
                 compatible, incompatible, unknown, recommendations, upgradeAnalysis>>

\* lines 64-81
AddRecommendation(recs, dep1, dep2, result) ==
  [n \in Names |->
     IF n = dep1 THEN Append(recs[n], [with |-> dep2, version |-> result.rec1])
     ELSE IF n = dep2 THEN Append(recs[n], [with |-> dep1, version |-> result.rec2])
     ELSE recs[n]]

\* lines 58-82: the result of the pair goes to its list, with its recommendation
FilePairResult(dep1, dep2, result) ==
  IF result.threw
  THEN /\ pc' = "threw"
       /\ exception' = "pair-check"
       /\ UNCHANGED <<idx, compatible, incompatible, recommendations>>
  ELSE /\ idx' = idx + 1
       /\ UNCHANGED <<pc, exception>>
       /\ IF result.compatible
          THEN /\ compatible' = Append(compatible, result)
               /\ UNCHANGED <<incompatible, recommendations>>
          ELSE /\ incompatible' = Append(incompatible, result)
               /\ recommendations' =
                    IF result.hasRecommendation
                    THEN AddRecommendation(recommendations, dep1, dep2, result)
                    ELSE recommendations
               /\ UNCHANGED compatible

\* one iteration of the loop of lines 50-83
CheckPair ==
  /\ pc = "pairs"
  /\ idx <= Len(dependencyPairs)
  /\ LET dep1 == dependencyPairs[idx][1]
         dep2 == dependencyPairs[idx][2]
     IN  FilePairResult(dep1, dep2,
                        checkPairCompatibility(dep1, RangeOf(dep1), dep2, RangeOf(dep2),
                                               dependencyDetails))
  /\ UNCHANGED <<managerVars, scan, earlier, program>>
  /\ UNCHANGED <<dependencies, latestVersions, provider, dependencyDetails,
                 dependencyPairs, unknown, upgradeAnalysis>>

\* lines 86-87, once the pair loop is over
StartUpgradeAnalysis ==
  /\ pc = "pairs"
  /\ idx > Len(dependencyPairs)
  /\ pc' = "upgrade"
  /\ idx' = 1
  /\ UNCHANGED <<managerVars, scan, earlier, program>>
  /\ UNCHANGED <<dependencies, latestVersions, provider, exception, dependencyDetails,
                 dependencyPairs, compatible, incompatible, unknown, recommendations,
                 upgradeAnalysis>>

\* lines 97-108: the issues of the later dependencies, with the issue that
\* the check of otherDep raised in front
CollectIssue(otherDep, result, rest) ==
  IF result.threw THEN [threw |-> TRUE, issues |-> << >>]
  ELSE IF rest.threw THEN rest
  ELSE IF ~result.compatible
  THEN [rest EXCEPT !.issues = <<[with |-> otherDep, reason |-> result.reason]>>
                                 \o rest.issues]
  ELSE rest

\* the loop of lines 94-109 from dependency k on: [threw, issues]
RECURSIVE UpgradeIssues(_, _, _)
UpgradeIssues(dep, latest, k) ==
  IF k > Len(dependencies) THEN [threw |-> FALSE, issues |-> << >>]
  ELSE IF dependencies[k].name = dep THEN UpgradeIssues(dep, latest, k + 1)
  ELSE CollectIssue(dependencies[k].name,
                    checkVersionCompatibility(dep, latest, dependencies[k].name,
                                              dependencies[k].range, dependencyDetails),
                    UpgradeIssues(dep, latest, k + 1))

\* lines 90-117: the entry of the dependency, when a newer version exists
RecordUpgrade(versionInfo, upgrade) ==
  \* semver.gt(latest, current) throws on an invalid version
  IF SemverThrows(versionInfo.latest) \/ SemverThrows(versionInfo.current)
  THEN /\ pc' = "threw"
       /\ exception' = "upgrade-analysis"
       /\ UNCHANGED <<idx, upgradeAnalysis>>
  ELSE IF SemverCompare(versionInfo.latest, versionInfo.current) <= 0
  THEN /\ idx' = idx + 1
       /\ UNCHANGED <<pc, exception, upgradeAnalysis>>
  ELSE IF upgrade.threw
  THEN /\ pc' = "threw"
       /\ exception' = "upgrade-analysis"
       /\ UNCHANGED <<idx, upgradeAnalysis>>
  ELSE /\ idx' = idx + 1
       /\ upgradeAnalysis' =
            Append(upgradeAnalysis,
                   [name |-> versionInfo.name,
                    currentVersion |-> versionInfo.current,
                    latestVersion |-> versionInfo.latest,
                    canUpgrade |-> Len(upgrade.issues) = 0,
                    issues |-> upgrade.issues])
       /\ UNCHANGED <<pc, exception>>

\* one iteration of the loop of lines 89-118
AnalyzeUpgrade ==
  /\ pc = "upgrade"
  /\ idx <= Len(latestVersions)
  /\ RecordUpgrade(latestVersions[idx],
                   UpgradeIssues(latestVersions[idx].name, latestVersions[idx].latest, 1))
  /\ UNCHANGED <<managerVars, scan, earlier, program>>
  /\ UNCHANGED <<dependencies, latestVersions, provider, dependencyDetails,
                 dependencyPairs, compatible, incompatible, unknown, recommendations>>

\* line 121
ReturnResults ==
  /\ pc = "upgrade"
  /\ idx > Len(latestVersions)
  /\ pc' = "done"
  /\ UNCHANGED <<managerVars, scan, earlier, program>>
  /\ UNCHANGED <<dependencies, latestVersions, provider, exception, idx, dependencyDetails,
                 dependencyPairs, compatible, incompatible, unknown, recommendations,
                 upgradeAnalysis>>

EngineNext ==
  \/ FetchPackage
  \/ GeneratePairs
  \/ CheckPair
  \/ StartUpgradeAnalysis
  \/ AnalyzeUpgrade
  \/ ReturnResults

Next == EngineNext

Spec == Init /\ [][Next]_vars

\* a run over two packages of a rule pair, with generated registry documents
PairInit ==
  /\ \E q \in PairNameSeqs :
       /\ \E r1 \in PairRanges(q[1]), r2 \in PairRanges(q[2]) :
            dependencies = <<[name |-> q[1], range |-> r1], [name |-> q[2], range |-> r2]>>
       /\ \E o1 \in PairOutcomes(q[1]), o2 \in PairOutcomes(q[2]) :
            provider = [n \in Names |->
                          IF n = q[1] THEN o1 ELSE IF n = q[2] THEN o2
                          ELSE ProviderOf({})[n]]
       /\ latestVersions = LatestTable(dependencies, {1, 2}, 1)
  /\ EngineStart
  /\ NoPlugins
  /\ NoCalls

PairSpec == PairInit /\ [][Next]_vars

\* ---- checkCompatibility called by the program, index.js lines 100-139 ----

\* index.js lines 124-129: the dependencies picked in the interactive mode,
\* in the order of the manifest
FilteredDeps(manifest, picked) == SelectSeq(manifest, LAMBDA d : d.name \in picked)

\* analyzeProject builds dependencies and latestVersions from the manifest;
\* the interactive mode then narrows dependencies to the names picked (all
\* of them when the mode is off), and checkCompatibility gets the two
FilterInit ==
  /\ \E n \in 1..MaxDeps : \E q \in NameSeqs(n) : \E manifest \in ManifestsOf(q) :
       /\ \E picked \in (SUBSET {q[k] : k \in 1..n}) \ {{}} :
            dependencies = FilteredDeps(manifest, picked)
       /\ \E failing \in SUBSET {q[k] : k \in 1..n} : provider = ProviderOf(failing)
       /\ \E kept \in SUBSET (1..n) : latestVersions = LatestTable(manifest, kept, 1)
  /\ EngineStart
  /\ NoPlugins
  /\ NoCalls

FilterSpec == FilterInit /\ [][Next]_vars

\* ---- checkCompatibility called again with the same projectInfo ----

\* what a call leaves behind: how it ended and the lists of its report
Report ==
  [made |-> TRUE, outcome |-> pc, exception |-> exception, compatible |-> compatible,
   incompatible |-> incompatible, unknown |-> unknown,
   recommendations |-> recommendations, upgradeAnalysis |-> upgradeAnalysis]

\* the report object of the call before, taken up again
ReusedReport(old) == old

\* lines 13-18: const compatibilityResults = { compatible: [], ... }
NewReport(old) ==
  [old EXCEPT !.compatible = << >>, !.incompatible = << >>, !.unknown = << >>,
              !.recommendations = [n \in Names |-> << >>], !.upgradeAnalysis = << >>]

\* a second call, lines 11-21, with the projectInfo and the registry of the first
RunAgain ==
  /\ pc \in {"done", "threw"}
  /\ ~earlier.made
  /\ earlier' = Report
  /\ pc' = "fetch"
  /\ exception' = "none"
  /\ idx' = 1
  /\ dependencyDetails' = << >>
  /\ dependencyPairs' = << >>
  /\ compatible' = NewReport(Report).compatible
  /\ incompatible' = NewReport(Report).incompatible
  /\ unknown' = NewReport(Report).unknown
  /\ recommendations' = NewReport(Report).recommendations
  /\ upgradeAnalysis' = NewReport(Report).upgradeAnalysis
  /\ UNCHANGED <<dependencies, latestVersions, provider>>
  /\ UNCHANGED <<managerVars, scan, program>>

RerunNext ==
  \/ EngineNext
  \/ RunAgain

RerunSpec == Init /\ [][RerunNext]_vars


\* ------------------------------------------------------------------------
\* The hook pipeline: registerHook, executeHook, withTimeout
\* ------------------------------------------------------------------------

\* the most callbacks registered under all hook names together
MaxHandlers == 3

\* the most executeHook calls of one behaviour
MaxRuns == 1

\* the most loadAllPlugins and loadPlugin calls of one behaviour
MaxLoads == 2

\* what a callback does with the data it is called with:
\*   mutate        writes to the object and returns it
\*   replace       returns, after asynchronous work, a new object with its write
\*   void          writes to the object and returns nothing
\*   throw         throws (or rejects) before it wrote
\*   mutate-throw  writes to the object, then throws
\*   hang          returns a promise that never settles
\*   slow          writes to the object after work that outlasts pluginTimeout
HandlerKinds == {"mutate", "replace", "void", "throw", "mutate-throw", "hang", "slow"}

\* this.hooks.get(hookName) || []
CallbacksOf(hks, hookName) == IF hookName \in DOMAIN hks THEN hks[hookName] ELSE << >>

RECURSIVE CountCallbacks(_, _)
CountCallbacks(hks, names) ==
  IF names = {} THEN 0
  ELSE LET h == CHOOSE h \in names : TRUE
       IN  Len(hks[h]) + CountCallbacks(hks, names \ {h})

Registered == CountCallbacks(hooks, DOMAIN hooks)

\* lines 33-38
registerHook(hks, hookName, callback) ==
  [h \in DOMAIN hks \cup {hookName} |->
     IF h = hookName THEN Append(CallbacksOf(hks, h), callback) ELSE hks[h]]

\* a callback the caller registers itself
RegisterHook ==
  /\ op = "idle"
  /\ Registered < MaxHandlers
  /\ \E hookName \in HookNames, kind \in HandlerKinds :
       hooks' = registerHook(hooks, hookName,
                             [id |-> Len(CallbacksOf(hooks, hookName)) + 1, kind |-> kind,
                              owner |-> "caller"])
  /\ UNCHANGED <<persisted, pluginDir, config, globalConfig, plugins, op, loadIdx, run,
                 heap, late, invoked, instantiated, runs, loads>>
  /\ UNCHANGED <<engineVars, scan, earlier, program>>

\* the object with one more write, marked with the callback's id (its
\* position under its hook name)
Written(hp, ref, id) == [hp EXCEPT ![ref] = Append(@, id)]

\* the result that is never set
StartResultUnset(data) == Undefined

\* let result = data, line 48
StartResult(data) == data

\* lines 46-48: the call of executeHook with a new data object
ExecuteHook ==
  /\ op = "idle"
  /\ runs < MaxRuns
  /\ \E hookName \in HookNames :
       run' = [NoRun EXCEPT !.hook = hookName, !.data = Len(heap) + 1, !.k = 1,
                            !.result = StartResult(Len(heap) + 1), !.phase = "next",
                            !.detached = hookName \notin DOMAIN hooks]
  /\ heap' = Append(heap, << >>)
  /\ op' = "running"
  /\ invoked' = << >>
  /\ runs' = runs + 1
  /\ UNCHANGED <<persisted, pluginDir, config, globalConfig, plugins, hooks, loadIdx,
                 late, instantiated, loads>>
  /\ UNCHANGED <<engineVars, scan, earlier, program>>

\* const callbacks = this.hooks.get(hookName) || [], line 47: the array of
\* the map itself, which later registrations push to, or an empty array of
\* the call's own when the map had none
RunCallbacks(hks, r) == IF r.detached THEN << >> ELSE CallbacksOf(hks, r.hook)

\* the callbacks taken from the end
CallbackFromEnd(callbacks, k) == callbacks[Len(callbacks) + 1 - k]

\* the k-th callback of the for...of loop of line 50
CallbackAt(callbacks, k) == callbacks[k]

\* the synchronous part of callback(result): what it does at once
CallOutcome(kind, input) ==
  CASE kind = "hang" -> "pending"
    [] kind = "throw" -> "rejected"
    [] input = Undefined -> "rejected"   \* TypeError: the callback reads undefined
    [] kind = "mutate-throw" -> "rejected"
    [] kind \in {"mutate", "void"} -> "resolved"
    [] OTHER -> "pending"

\* a catch block that rethrows whatever the flag says
RethrowAlways(failOnPluginError) == TRUE

\* a catch block that swallows whatever the flag says
RethrowNever(failOnPluginError) == FALSE

\* the catch block, lines 57-62: rethrow or go on with the next callback
RethrowPolicy(failOnPluginError) == failOnPluginError

Caught(r, error) ==
  IF RethrowPolicy(globalConfig.failOnPluginError)
  THEN [r EXCEPT !.phase = "threw", !.error = error, !.callback = NoHandler]
  ELSE [r EXCEPT !.k = @ + 1, !.phase = "next", !.callback = NoHandler]

\* result = await ..., line 52, when the race is won by the callback
Resolved(r, value) ==
  [r EXCEPT !.result = value, !.k = @ + 1, !.phase = "next", !.callback = NoHandler]

LogEntry(callback, input, outcome, output) ==
  [id |-> callback.id, kind |-> callback.kind, input |-> input,
   seen |-> IF input = Undefined THEN << >> ELSE heap[input],
   failOnPluginError |-> globalConfig.failOnPluginError,
   outcome |-> outcome, output |-> output]

Settle(log, outcome, output) ==
  [log EXCEPT ![Len(log)].outcome = outcome, ![Len(log)].output = output]

\* lines 50-56: the loop takes the next callback and calls it with result
InvokeHandler ==
  /\ op = "running"
  /\ run.phase = "next"
  /\ run.k <= Len(RunCallbacks(hooks, run))
  /\ LET callback == CallbackAt(RunCallbacks(hooks, run), run.k)
         input == run.result
         outcome == CallOutcome(callback.kind, input)
         writes == input # Undefined /\ callback.kind \in {"mutate", "void", "mutate-throw"}
         output == IF callback.kind = "mutate" THEN input ELSE Undefined
     IN  /\ heap' = IF writes THEN Written(heap, input, callback.id) ELSE heap
         /\ run' = CASE outcome = "resolved" -> Resolved(run, output)
                     [] outcome = "rejected" -> Caught(run, "callback")
                     [] OTHER -> [run EXCEPT !.phase = "waiting", !.callback = callback,
                                             !.input = input, !.elapsed = 0]
         /\ invoked' = Append(invoked, LogEntry(callback, input, outcome,
                                                IF outcome = "resolved" THEN output
                                                ELSE Undefined))
  /\ op' = IF run'.phase = "threw" THEN "idle" ELSE "running"
  /\ UNCHANGED <<persisted, pluginDir, config, globalConfig, plugins, hooks, loadIdx,
                 late, instantiated, runs, loads>>
  /\ UNCHANGED <<engineVars, scan, earlier, program>>

\* line 65: the loop is over
ReturnResult ==
  /\ op = "running"
  /\ run.phase = "next"
  /\ run.k > Len(RunCallbacks(hooks, run))
  /\ run' = [run EXCEPT !.phase = "returned"]
  /\ op' = "idle"
  /\ UNCHANGED <<persisted, pluginDir, config, globalConfig, plugins, hooks, loadIdx,
                 heap, late, invoked, instantiated, runs, loads>>
  /\ UNCHANGED <<engineVars, scan, earlier, program>>

\* generateReport, lines 24 and 132-136: the blocks it prints after the
\* report, taken from what executeHook returned; reading additionalReports
\* of undefined is a TypeError
additionalReports(result, hp) ==
  IF result = Undefined THEN [threw |-> TRUE, blocks |-> << >>]
  ELSE [threw |-> FALSE, blocks |-> hp[result]]

\* the milliseconds of work after which the pending callback settles
WorkOf(kind) == IF kind = "replace" THEN 2500 ELSE 7500

CallbackDue(callback, elapsed) == callback.kind # "hang" /\ elapsed >= WorkOf(callback.kind)

\* a timer that is never due
TimerNever(elapsed, timeout) == FALSE

\* withTimeout, lines 75-82: the timer of setTimeout is due
TimerDue(elapsed, timeout) == elapsed >= timeout

\* the promise of the callback settles first: Promise.race resolves with it
HandlerSettles ==
  /\ op = "running"
  /\ run.phase = "waiting"
  /\ CallbackDue(run.callback, run.elapsed)
  /\ LET id == run.callback.id
         fresh == run.callback.kind = "replace"
         value == IF fresh THEN Len(heap) + 1 ELSE run.input
     IN  /\ heap' = IF fresh THEN Append(heap, Append(heap[run.input], id))
                    ELSE Written(heap, run.input, id)
         /\ run' = Resolved(run, value)
         /\ invoked' = Settle(invoked, "resolved", value)
  /\ UNCHANGED <<persisted, pluginDir, config, globalConfig, plugins, hooks, op, loadIdx,
                 late, instantiated, runs, loads>>
  /\ UNCHANGED <<engineVars, scan, earlier, program>>

\* the timer fires first: Promise.race rejects, the callback is left at work
TimerFires ==
  /\ op = "running"
  /\ run.phase = "waiting"
  /\ ~CallbackDue(run.callback, run.elapsed)
  /\ TimerDue(run.elapsed, globalConfig.pluginTimeout)
  /\ run' = Caught(run, "timeout")
  /\ op' = IF run'.phase = "threw" THEN "idle" ELSE "running"
  /\ late' = IF run.callback.kind = "slow"
             THEN late \cup {[id |-> run.callback.id, input |-> run.input]}
             ELSE late
  /\ invoked' = Settle(invoked, "timeout", Undefined)
  /\ UNCHANGED <<persisted, pluginDir, config, globalConfig, plugins, hooks, loadIdx,
                 heap, instantiated, runs, loads>>
  /\ UNCHANGED <<engineVars, scan, earlier, program>>

\* time passes until the next of the two is due
Tick ==
  /\ op = "running"
  /\ run.phase = "waiting"
  /\ ~CallbackDue(run.callback, run.elapsed)
  /\ ~TimerDue(run.elapsed, globalConfig.pluginTimeout)
  /\ run' = [run EXCEPT !.elapsed =
               IF run.callback.kind # "hang" /\ WorkOf(run.callback.kind) > run.elapsed
                    /\ WorkOf(run.callback.kind) < globalConfig.pluginTimeout
               THEN WorkOf(run.callback.kind)
               ELSE globalConfig.pluginTimeout]
  /\ UNCHANGED <<persisted, pluginDir, config, globalConfig, plugins, hooks, op, loadIdx,
                 heap, late, invoked, instantiated, runs, loads>>
  /\ UNCHANGED <<engineVars, scan, earlier, program>>

\* a late value taken for the result of the run
LateReturnTaken(r, value) == [r EXCEPT !.result = value]

\* Promise.race, lines 76-81, was settled by the timer: the value the
\* callback's promise is fulfilled with later goes nowhere
LateReturn(r, value) == r

\* a callback that timed out finishes its work, nothing stopped it, and
\* returns the object it was given
LateWrite ==
  /\ run.phase # "next"
  /\ \E p \in late :
       /\ heap' = Written(heap, p.input, p.id)
       /\ late' = late \ {p}
       /\ run' = LateReturn(run, p.input)
  /\ UNCHANGED <<persisted, pluginDir, config, globalConfig, plugins, hooks, op, loadIdx,
                 invoked, instantiated, runs, loads>>
  /\ UNCHANGED <<engineVars, scan, earlier, program>>

\* ------------------------------------------------------------------------
\* Plugin loading: loadConfig, isPluginEnabled, loadPlugin, loadAllPlugins
\* ------------------------------------------------------------------------

\* what a plugin file exports:
\*   exports     "class", "instance" (export default new X(), as
\*               plugins/example-plugin.js does), or "broken" (the import
\*               itself fails)
\*   named       "file" when plugin.name is the file's base name, else "other"
\*   hasInit     the instance has the init method validatePlugin asks for
\*   initialize  what initialize() does: "none" (no such method), "manager"
\*               (registers a callback with the exported pluginManager),
\*               "self" (registers through BasePlugin.registerHook, which
\*               needs the manager that only init(pluginManager) stores),
\*               "slow" (registers with the manager, then waits for I/O),
\*               "throws"
Module(exports, named, hasInit, initialize) ==
  [exports |-> exports, named |-> named, hasInit |-> hasInit, initialize |-> initialize]

PluginModules ==
  { Module("class", "file", TRUE, "manager"),
    Module("class", "other", TRUE, "manager"),
    Module("class", "file", TRUE, "self"),
    Module("class", "file", TRUE, "none"),
    Module("class", "file", TRUE, "slow"),
    Module("class", "file", TRUE, "throws"),
    Module("class", "file", FALSE, "manager"),
    Module("instance", "file", TRUE, "self"),
    Module("broken", "file", TRUE, "self") }

\* plugin.name of the instance of the file's class
PluginName(file, module) == IF module.named = "file" THEN file ELSE "security-audit-plugin"

\* the plugins section of plugin-config.json: an entry "true" or "false" for
\* some of the files
PluginEntries ==
  UNION { [fs -> {"true", "false"}] :
            fs \in SUBSET {PluginFiles[k] : k \in 1..Len(PluginFiles)} }

PersistedFiles ==
  {NoFile} \cup
  { [present |-> TRUE, hasGlobalConfig |-> g, failOnPluginError |-> f,
     global |-> gl, plugins |-> e] :
      g \in BOOLEAN, f \in BOOLEAN, gl \in {NoGlobal, UserGlobal}, e \in PluginEntries }

\* loadConfig, lines 173-193: [config, globalConfig]
loadConfig(file, global) ==
  IF file.present
  THEN [config |-> [loaded |-> TRUE, plugins |-> file.plugins],
        globalConfig |-> IF file.hasGlobalConfig
                         THEN [global EXCEPT !.failOnPluginError = file.failOnPluginError]
                         ELSE global]
  ELSE [config |-> [loaded |-> TRUE, plugins |-> [f \in {} |-> "true"]],
        globalConfig |-> global]

\* every plugin taken for enabled
isPluginEnabledAlways(cfg, pluginName) == TRUE

\* lines 200-207
isPluginEnabled(cfg, pluginName) ==
  IF ~cfg.loaded THEN TRUE
  ELSE IF pluginName \in DOMAIN cfg.plugins THEN cfg.plugins[pluginName] # "false"
  ELSE TRUE

\* setTimeout(fn, undefined) waits one millisecond
InitializeTimeout(global) == IF global.timeout = Undefined THEN 1 ELSE global.timeout

\* the callback a plugin registers in initialize()
PluginCallback(file, id) == [id |-> id, kind |-> "mutate", owner |-> file]

\* every load failure thrown on to the caller
LoadRethrowsAlways(failOnPluginError) == TRUE

\* lines 162-164: the catch block of loadPlugin throws the error again
LoadRethrows(failOnPluginError) == failOnPluginError

\* loadPlugin, lines 89-168, of the plugin file: what it leaves behind
\* [plugins, hooks, instantiated, threw]
loadPlugin(file) ==
  LET module == pluginDir[file]
      same == [plugins |-> plugins, hooks |-> hooks, instantiated |-> instantiated,
               threw |-> FALSE]
      failed(st) == [st EXCEPT !.threw = LoadRethrows(globalConfig.failOnPluginError)]
      built == [same EXCEPT !.instantiated = @ \cup {file}]
      bound == [built EXCEPT !.hooks = registerHook(hooks, "after-analyze",
                                                    PluginCallback(file, Len(CallbacksOf(hooks, "after-analyze")) + 1))]
      name == PluginName(file, module)
      added(st) == [st EXCEPT !.plugins =
                      [n \in DOMAIN plugins \cup {name} |->
                         IF n = name THEN file ELSE plugins[n]]]
  IN  IF ~isPluginEnabled(config, file) THEN same
      ELSE IF module.exports # "class" THEN failed(same)
      ELSE IF ~module.hasInit THEN failed(built)
      ELSE CASE module.initialize = "none" -> added(built)
             [] module.initialize = "self" -> added(built)
             [] module.initialize = "manager" -> added(bound)
             [] module.initialize = "slow" ->
                  IF TimerDue(WorkOf("replace"), InitializeTimeout(globalConfig))
                  THEN failed(bound) ELSE added(bound)
             [] OTHER -> failed(built)

\* the plugin files that readdir lists
ListedFiles == SelectSeq(PluginFiles, LAMBDA f : f \in DOMAIN pluginDir)

\* loadAllPlugins up to its loop, lines 226-251
LoadAllPlugins ==
  /\ op = "idle"
  /\ loads < MaxLoads
  /\ config' = loadConfig(persisted, globalConfig).config
  /\ globalConfig' = loadConfig(persisted, globalConfig).globalConfig
  /\ IF Len(ListedFiles) = 0
     THEN UNCHANGED <<op, loadIdx>>
     ELSE op' = "loading" /\ loadIdx' = 1
  /\ loads' = loads + 1
  /\ UNCHANGED <<persisted, pluginDir, plugins, hooks, run, heap, late, invoked,
                 instantiated, runs>>
  /\ UNCHANGED <<engineVars, scan, earlier, program>>

\* one iteration of the loop of lines 253-264
LoadNextPlugin ==
  /\ op = "loading"
  /\ loadIdx <= Len(ListedFiles)
  /\ LET after == loadPlugin(ListedFiles[loadIdx])
     IN  /\ plugins' = after.plugins
         /\ hooks' = after.hooks
         /\ instantiated' = after.instantiated
         /\ IF after.threw
            THEN op' = "idle" /\ UNCHANGED loadIdx
            ELSE loadIdx' = loadIdx + 1 /\ UNCHANGED op
  /\ UNCHANGED <<persisted, pluginDir, config, globalConfig, run, heap, late, invoked,
                 runs, loads>>
  /\ UNCHANGED <<engineVars, scan, earlier, program>>

\* lines 266-268: the loop is over
LoadAllDone ==
  /\ op = "loading"
  /\ loadIdx > Len(ListedFiles)
  /\ op' = "idle"
  /\ UNCHANGED <<persisted, pluginDir, config, globalConfig, plugins, hooks, loadIdx,
                 run, heap, late, invoked, instantiated, runs, loads>>
  /\ UNCHANGED <<engineVars, scan, earlier, program>>

\* loadPlugin called by itself with the path of a plugin file
LoadPluginCall ==
  /\ op = "idle"
  /\ loads < MaxLoads
  /\ \E k \in 1..Len(ListedFiles) :
       LET after == loadPlugin(ListedFiles[k])
       IN  /\ plugins' = after.plugins
           /\ hooks' = after.hooks
           /\ instantiated' = after.instantiated
  /\ loads' = loads + 1
  /\ UNCHANGED <<persisted, pluginDir, config, globalConfig, op, loadIdx, run, heap,
                 late, invoked, runs>>
  /\ UNCHANGED <<engineVars, scan, earlier, program>>

\* unloadPlugin, lines 298-315
UnloadPlugin ==
  /\ op = "idle"
  /\ \E name \in DOMAIN plugins :
       plugins' = [n \in DOMAIN plugins \ {name} |-> plugins[n]]
  /\ UNCHANGED <<persisted, pluginDir, config, globalConfig, hooks, op, loadIdx, run,
                 heap, late, invoked, instantiated, runs, loads>>
  /\ UNCHANGED <<engineVars, scan, earlier, program>>

\* ---- the specifications of the plugin manager ----

\* the engine at rest
EngineIdle ==
  /\ dependencies = << >>
  /\ latestVersions = << >>
  /\ provider = ProviderOf({})
  /\ pc = "done"
  /\ exception = "none"
  /\ idx = 1
  /\ dependencyDetails = << >>
  /\ dependencyPairs = << >>
  /\ compatible = << >>
  /\ incompatible = << >>
  /\ unknown = << >>
  /\ recommendations = [n \in Names |-> << >>]
  /\ upgradeAnalysis = << >>

\* a new manager over an empty plugin directory; the configuration file may
\* set failOnPluginError
HookInit ==
  /\ persisted \in {f \in PersistedFiles : f.plugins = << >>}
  /\ pluginDir = [f \in {} |-> 0]
  /\ ManagerStart
  /\ EngineIdle
  /\ NoCalls

HookNext ==
  \/ LoadAllPlugins
  \/ RegisterHook
  \/ ExecuteHook
  \/ InvokeHandler
  \/ ReturnResult
  \/ HandlerSettles
  \/ TimerFires
  \/ Tick
  \/ LateWrite

HookSpec == HookInit /\ [][HookNext]_vars

\* the steps of a run are taken: the event loop runs what is due, and time passes
HookFairness ==
  /\ WF_vars(InvokeHandler)
  /\ WF_vars(ReturnResult)
  /\ WF_vars(HandlerSettles)
  /\ WF_vars(TimerFires)
  /\ WF_vars(Tick)

FairHookSpec == HookInit /\ [][HookNext]_vars /\ HookFairness

\* registerHook called for the hook of the run while the run is in progress,
\* by a callback of the run or by other code between two of its awaits
RegisterWhileRunning ==
  /\ op = "running"
  /\ Registered < MaxHandlers
  /\ \E kind \in {"mutate", "replace"} :
       hooks' = registerHook(hooks, run.hook,
                             [id |-> Len(CallbacksOf(hooks, run.hook)) + 1, kind |-> kind,
                              owner |-> "run"])
  /\ UNCHANGED <<persisted, pluginDir, config, globalConfig, plugins, op, loadIdx, run,
                 heap, late, invoked, instantiated, runs, loads>>
  /\ UNCHANGED <<engineVars, scan, earlier, program>>

RegisterNext ==
  \/ RegisterHook
  \/ RegisterWhileRunning
  \/ ExecuteHook
  \/ InvokeHandler
  \/ ReturnResult
  \/ HandlerSettles
  \/ TimerFires
  \/ Tick
  \/ LateWrite

RegisterSpec == HookInit /\ [][RegisterNext]_vars

\* a new manager over a plugin directory with two plugin files
LoadInit ==
  /\ persisted \in PersistedFiles
  /\ pluginDir \in [{PluginFiles[k] : k \in 1..Len(PluginFiles)} -> PluginModules]
  /\ ManagerStart
  /\ EngineIdle
  /\ NoCalls

LoadNext ==
  \/ LoadAllPlugins
  \/ LoadNextPlugin
  \/ LoadAllDone
  \/ LoadPluginCall
  \/ UnloadPlugin

LoadSpec == LoadInit /\ [][LoadNext]_vars

\* ------------------------------------------------------------------------
\* checkKnownCompatibilityIssues over a table of rules
\* ------------------------------------------------------------------------

\* the most rules of a table
MaxRules == 2

\* the tables of the calls: up to MaxRules rules, each one the condition and
\* recommendation of a rule of knownIssues, declared for either rule pair
RuleTables ==
  UNION { [1..n -> { [packages |-> knownIssues[p].packages, rule |-> knownIssues[r].rule] :
                       p \in 1..Len(knownIssues), r \in 1..Len(knownIssues) }] :
            n \in 0..MaxRules }

\* the cleaned versions of the calls; "1." is no semantic version
RuleVersions ==
  { <<"7", ".", "2", "7", ".", "0">>, V_8_0_0, <<"8", ".", "1", ".", "0">>, <<"1", ".">> }

\* one call of checkKnownCompatibilityIssues, lines 398-419
CheckKnownIssues ==
  /\ ~scan.called
  /\ \E table \in RuleTables, pair \in PairNameSeqs :
       \E version1 \in RuleVersions, version2 \in RuleVersions :
         scan' = [called |-> TRUE, table |-> table, dep1 |-> pair[1],
                  version1 |-> version1, dep2 |-> pair[2], version2 |-> version2,
                  result |-> KnownIssueLoop(table, 1, pair[1], version1, pair[2], version2)]
  /\ UNCHANGED <<engineVars, managerVars, earlier, program>>

RuleInit ==
  /\ EngineIdle
  /\ NoPlugins
  /\ NoCalls

RuleNext == CheckKnownIssues

RuleSpec == RuleInit /\ [][RuleNext]_vars

\* ------------------------------------------------------------------------
\* The program: the default command of index.js, lines 83-161
\* ------------------------------------------------------------------------

\* the hook names the plugins of a run register under
ProgramHooks == {"before-analyze", "before-compatibility-check", "check-pair-compatibility"}

\* what their callbacks do: return a changed copy of the data, return
\* nothing, or throw
ProgramKinds == {"replace", "void", "throw"}

\* options.path and options.deep of the run
OptionsPath == "cwd"

OptionsDeep == FALSE

\* the package.json files found at options.path: two names or more, in
\* alphabetical order
ProgramManifests ==
  UNION { ManifestsOf(Ascending(ks, 1)) :
            ks \in {x \in SUBSET (1..Len(NameOrder)) :
                      Cardinality(x) >= 2 /\ Cardinality(x) <= MaxDeps} }

\* the data as a callback of the hook changes it: another project path, or
\* the dependencies without the last one
Rewritten(hookName, data) ==
  CASE hookName = "before-analyze" -> [data EXCEPT !.projectPath = "elsewhere"]
    [] hookName = "before-compatibility-check" ->
         [data EXCEPT !.dependencies = SubSeq(@, 1, Len(@) - 1)]
    [] OTHER -> data

\* executeHook, lines 46-66, from callback k on, for callbacks that settle or
\* time out on their own: [threw, value]
RECURSIVE HookLoop(_, _, _, _)
HookLoop(hookName, callbacks, k, result) ==
  IF k > Len(callbacks) THEN [threw |-> FALSE, value |-> result]
  ELSE LET kind == callbacks[k].kind
           outcome == CallOutcome(kind, IF result.defined THEN 1 ELSE Undefined)
           resolves == \/ outcome = "resolved"
                       \/ /\ outcome = "pending"
                          /\ ~TimerDue(WorkOf(kind), globalConfig.pluginTimeout)
       IN  IF resolves
           THEN HookLoop(hookName, callbacks, k + 1,
                         IF kind = "void" THEN NoValue ELSE Rewritten(hookName, result))
           ELSE IF RethrowPolicy(globalConfig.failOnPluginError)
           THEN [threw |-> TRUE, value |-> result]
           ELSE HookLoop(hookName, callbacks, k + 1, result)

\* pluginManager.executeHook(hookName, data) as the program awaits it
executeHook(hookName, data) == HookLoop(hookName, CallbacksOf(hooks, hookName), 1, data)

\* line 91: the plugins loaded register their callbacks
LoadPlugins ==
  /\ program.stage = "load"
  /\ Registered < MaxHandlers
  /\ \E hookName \in ProgramHooks, kind \in ProgramKinds :
       hooks' = registerHook(hooks, hookName,
                             [id |-> Len(CallbacksOf(hooks, hookName)) + 1, kind |-> kind,
                              owner |-> "plugin"])
  /\ UNCHANGED <<persisted, pluginDir, config, globalConfig, plugins, op, loadIdx, run,
                 heap, late, invoked, instantiated, runs, loads>>
  /\ UNCHANGED <<engineVars, scan, earlier, program>>

\* lines 97-98
BeforeAnalyze ==
  /\ program.stage = "load"
  /\ LET out == executeHook("before-analyze",
                            [defined |-> TRUE, projectPath |-> OptionsPath])
     IN  program' = [program EXCEPT !.stage = IF out.threw THEN "failed" ELSE "analyze",
                                    !.projectData = out.value,
                                    !.executed = Append(@, "before-analyze")]
  /\ UNCHANGED <<engineVars, managerVars, scan, earlier>>

\* lines 100-103: analyzeProject(options.path), then the after-analyze hook
AnalyzeProject ==
  /\ program.stage = "analyze"
  /\ \E manifest \in ProgramManifests :
       LET projectInfo == [defined |-> TRUE, dependencies |-> manifest]
           out == executeHook("after-analyze", projectInfo)
       IN  /\ dependencies' = out.value.dependencies
           /\ latestVersions' = LatestTable(manifest, 1..Len(manifest), 1)
           /\ program' = [program EXCEPT !.stage = "before-check",
                                          !.analysed = OptionsPath,
                                          !.executed = Append(@, "after-analyze")]
  /\ UNCHANGED <<provider, pc, exception, idx, dependencyDetails, dependencyPairs,
                 compatible, incompatible, unknown, recommendations, upgradeAnalysis>>
  /\ UNCHANGED <<managerVars, scan, earlier>>

\* lines 135-137
BeforeCompatibilityCheck ==
  /\ program.stage = "before-check"
  /\ LET out == executeHook("before-compatibility-check",
                            [defined |-> TRUE, dependencies |-> dependencies,
                             deep |-> OptionsDeep])
     IN  program' = [program EXCEPT !.stage = IF out.threw THEN "failed" ELSE "call",
                                    !.checkData = out.value,
                                    !.executed = Append(@, "before-compatibility-check")]
  /\ UNCHANGED <<engineVars, managerVars, scan, earlier>>

\* line 139: checkCompatibility(enhancedProjectInfo, options.deep) is called
CallCheckCompatibility ==
  /\ program.stage = "call"
  /\ program' = [program EXCEPT !.stage = "check",
                                !.checked = [defined |-> TRUE,
                                             dependencies |-> dependencies,
                                             deep |-> OptionsDeep]]
  /\ UNCHANGED <<engineVars, managerVars, scan, earlier>>

\* the steps of the checkCompatibility call
CheckCompatibilityStep ==
  /\ program.stage = "check"
  /\ EngineNext

\* lines 141-160: the call is over; the hooks around the report
AfterCompatibilityCheck ==
  /\ program.stage = "check"
  /\ pc \in {"done", "threw"}
  /\ program' = IF pc = "threw" THEN [program EXCEPT !.stage = "failed"]
                ELSE [program EXCEPT !.stage = "done",
                                     !.executed = @ \o <<"after-compatibility-check",
                                                         "before-report-generation",
                                                         "format-report",
                                                         "after-report-generation">>]
  /\ UNCHANGED <<engineVars, managerVars, scan, earlier>>

\* the program is started in a project directory, with a new manager
ProgramInit ==
  /\ dependencies = << >>
  /\ latestVersions = << >>
  /\ provider = ProviderOf({})
  /\ EngineStart
  /\ NoPlugins
  /\ scan = NoScan
  /\ earlier = NoReport
  /\ program = ProgramAt("load")

ProgramNext ==
  \/ LoadPlugins
  \/ BeforeAnalyze
  \/ AnalyzeProject
  \/ BeforeCompatibilityCheck
  \/ CallCheckCompatibility
  \/ CheckCompatibilityStep
  \/ AfterCompatibilityCheck

ProgramSpec == ProgramInit /\ [][ProgramNext]_vars

\* ------------------------------------------------------------------------
\* Properties of checkCompatibility
\* ------------------------------------------------------------------------

Choose2(n) == (n * (n - 1)) \div 2

SeqToSet(q) == {q[k] : k \in 1..Len(q)}

DepNames == {dependencies[k].name : k \in 1..Len(dependencies)}

\* the dependencies whose getPackageInfo rejects
FailedNames == {n \in DepNames : ~provider[n].ok}

\* the pair loop of lines 50-83 ran to its end
PairLoopOver == pc \in {"upgrade", "done"} \/ exception = "upgrade-analysis"

PairResults == SeqToSet(compatible) \cup SeqToSet(incompatible)

ResultNames(r) == {r.pair[1], r.pair[3]}

\* how many entries of the list are the evaluation of <<dep1, dep2>>
CountIn(list, dep1, dep2) ==
  Cardinality({k \in 1..Len(list) : list[k].pair[1] = dep1 /\ list[k].pair[3] = dep2})

\* the unknown entries the fetch loop leaves for dependencies k..
RECURSIVE ExpectedUnknown(_)
ExpectedUnknown(k) ==
  IF k > Len(dependencies) THEN << >>
  ELSE IF provider[dependencies[k].name].ok THEN ExpectedUnknown(k + 1)
  ELSE <<[name |-> dependencies[k].name,
          reason |-> provider[dependencies[k].name].message]>> \o ExpectedUnknown(k + 1)

C3_NeverThrows == pc # "threw"

\* the keys of the fetched document of dep that satisfy the range
SatisfyingKeys(dep, range) ==
  {k \in 1..Len(DetailsOf(dependencyDetails, dep).versions) :
     LET key == DetailsOf(dependencyDetails, dep).versions[k].key
     IN  SemverValid(key) /\ SemverSatisfies(key, range)}

\* checkPairCompatibility run again on the pair of r with the recommended
\* versions in place of the declared ones
Recheck(r) == checkPairCompatibility(r.pair[1], r.rec1, r.pair[3], r.rec2, dependencyDetails)

\* C4: every incompatible pair result that carries a recommendation checks
\* compatible when checkPairCompatibility is run again with the recommended
\* versions, and a violated peer range that no known version satisfies leaves
\* the result without a recommendation.
C4_RecommendationSound ==
  \A r \in SeqToSet(incompatible) :
    /\ r.hasRecommendation => (~Recheck(r).threw /\ Recheck(r).compatible)
    /\ (r.reason.kind = "peer" /\ SatisfyingKeys(r.reason.required, r.reason.range) = {})
         => ~r.hasRecommendation

\* ------------------------------------------------------------------------
\* Properties of the hook pipeline
\* ------------------------------------------------------------------------

Failed(entry) == entry.outcome \in {"rejected", "timeout"}

\* the value that the first j callbacks of the run leave in result
RECURSIVE ValueAfter(_)
ValueAfter(j) ==
  IF j = 0 THEN run.data
  ELSE IF invoked[j].outcome = "resolved" THEN invoked[j].output
  ELSE ValueAfter(j - 1)

\* C5: executeHook under a hook name without callbacks, a name never
\* registered included, returns the very data it was given, with the data
\* untouched and no callback called.
C5_IdentityLaw ==
  (run.phase = "returned" /\ CallbacksOf(hooks, run.hook) = << >>) =>
    /\ run.result = run.data
    /\ heap[run.data] = << >>
    /\ invoked = << >>

C5_Witness ==
  /\ run.phase = "returned"
  /\ run.hook \notin DOMAIN hooks
  /\ Registered > 0
  /\ run.result = run.data

C7_FailureSkipped ==
  \A i \in 1..Len(invoked) :
    (Failed(invoked[i]) /\ ~invoked[i].failOnPluginError) =>
      /\ run.phase \in {"next", "waiting", "returned"}
      /\ run.k > i
      /\ i < Len(invoked) => invoked[i + 1].input = invoked[i].input
      /\ i = Len(invoked) => run.result = invoked[i].input

C7_Witness ==
  /\ run.phase = "returned"
  /\ Len(invoked) = 3
  /\ invoked[1].kind = "replace"
  /\ invoked[2].outcome = "timeout"
  /\ invoked[3].outcome = "rejected"
  /\ run.result = invoked[1].output

\* C8: with failOnPluginError true, the first callback that throws, rejects
\* or times out makes executeHook fail at once with that error, and no
\* callback registered after it is called in that run.
C8_FailFast ==
  \A i \in 1..Len(invoked) :
    (Failed(invoked[i]) /\ invoked[i].failOnPluginError) =>
      /\ i = Len(invoked)
      /\ run.phase = "threw"
      /\ run.error = (IF invoked[i].outcome = "timeout" THEN "timeout" ELSE "callback")
      /\ op = "idle"

C8_Witness ==
  /\ run.phase = "threw"
  /\ run.error = "timeout"
  /\ Len(invoked) = 2
  /\ Len(CallbacksOf(hooks, run.hook)) = 3

\* C9: with failOnPluginError false, executeHook stops waiting for a callback
\* that never settles once pluginTimeout has passed, goes on to the next
\* callback, and in the end returns a result.
C9_TimeoutIsolation ==
  (run.phase = "waiting" /\ run.callback.kind = "hang"
     /\ ~globalConfig.failOnPluginError)
    ~> (run.phase = "returned")

C9_Witness ==
  /\ run.phase = "returned"
  /\ Len(invoked) = 2
  /\ invoked[1].kind = "hang"
  /\ invoked[1].outcome = "timeout"
  /\ invoked[2].outcome = "resolved"
  /\ run.result = invoked[2].output

\* ------------------------------------------------------------------------
\* Properties of plugin loading
\* ------------------------------------------------------------------------

\* the plugin files that plugin-config.json marks enabled: false
MarkedDisabled ==
  {f \in DOMAIN persisted.plugins : persisted.plugins[f] = "false"}

\* the callbacks that the plugin of the file has under any hook name
CallbacksOwnedBy(hks, file) ==
  UNION { {<<h, k>> : k \in {j \in 1..Len(hks[h]) : hks[h][j].owner = file}} :
            h \in DOMAIN hks }

LoadedFrom(plgs, file) == {n \in DOMAIN plgs : plgs[n] = file}

\* C10 (as amended): once the manager has read the configuration file, no
\* load operation constructs the class of a plugin file marked enabled:
\* false, adds a plugin of that file to the plugin map, or registers a
\* callback of it under any hook name.
C10_DisabledNeverLoaded ==
  [][config.loaded =>
       \A f \in MarkedDisabled :
         /\ (f \in instantiated') => (f \in instantiated)
         /\ LoadedFrom(plugins', f) \subseteq LoadedFrom(plugins, f)
         /\ CallbacksOwnedBy(hooks', f) \subseteq CallbacksOwnedBy(hooks, f)]_vars

C10_Witness ==
  /\ op = "idle"
  /\ config.loaded
  /\ loads = MaxLoads
  /\ MarkedDisabled = {PluginFiles[1]}
  /\ instantiated = {PluginFiles[2]}
  /\ Len(CallbacksOf(hooks, "after-analyze")) = 2
  /\ pluginDir[PluginFiles[1]].initialize = "manager"

\* C10 as stated: in no sequence of load operations is a plugin file marked
\* enabled: false constructed, added to the plugin map, or the owner of a
\* registered callback.
C10_AsStated ==
  \A f \in MarkedDisabled :
    /\ f \notin instantiated
    /\ LoadedFrom(plugins, f) = {}
    /\ CallbacksOwnedBy(hooks, f) = {}

\* the handlers that the initialization routine of the plugin file registers
RegistersHandlers(file) == pluginDir[file].initialize \in {"manager", "self", "slow"}

\* C11: after a load operation, every plugin in the plugin map whose
\* initialization routine registers a handler has a callback in the hook
\* lists of the manager.
C11_HandlersBound ==
  (op = "idle" /\ config.loaded) =>
    \A n \in DOMAIN plugins :
      RegistersHandlers(plugins[n]) => CallbacksOwnedBy(hooks, plugins[n]) # {}

\* C12: a step that removes a plugin from the plugin map leaves no callback
\* of that plugin in any hook list.
C12_UnloadStripsHandlers ==
  [][\A n \in (DOMAIN plugins) \ (DOMAIN plugins') :
       CallbacksOwnedBy(hooks', plugins[n]) = {}]_vars

\* the load of the plugin file fails: import error, no exported class,
\* invalid structure, initialization that throws or runs out of time
FailsToLoad(file) ==
  \/ pluginDir[file].exports # "class"
  \/ ~pluginDir[file].hasInit
  \/ pluginDir[file].initialize = "throws"
  \/ /\ pluginDir[file].initialize = "slow"
     /\ TimerDue(WorkOf("replace"), InitializeTimeout(globalConfig))

\* the loop of loadAllPlugins goes from the file at loadIdx to the next one
LoopGoesOn ==
  (op = "loading" /\ loadIdx <= Len(ListedFiles)) =>
    (op' = "loading" /\ loadIdx' = loadIdx + 1)

\* C13 (as amended): a plugin file whose load fails is never added to the
\* plugin map, and while failOnPluginError is not set the loop of
\* loadAllPlugins goes on to the next file after every file, failed or not.
C13_LoadFailureIsolated ==
  [][/\ \A f \in DOMAIN pluginDir :
          FailsToLoad(f) => LoadedFrom(plugins', f) \subseteq LoadedFrom(plugins, f)
     /\ ~globalConfig.failOnPluginError => LoopGoesOn]_vars

C13_Witness ==
  /\ op = "idle"
  /\ config.loaded
  /\ ~globalConfig.failOnPluginError
  /\ pluginDir[PluginFiles[1]].initialize = "throws"
  /\ PluginFiles[1] \in instantiated
  /\ LoadedFrom(plugins, PluginFiles[1]) = {}
  /\ LoadedFrom(plugins, PluginFiles[2]) # {}

\* C13 as stated: the loop of loadAllPlugins goes on to the next file after
\* every file, whatever the failure policy.
C13_AsStated == [][LoopGoesOn]_vars

\* ------------------------------------------------------------------------
\* Properties of the known-issue table
\* ------------------------------------------------------------------------

\* the rule is declared for the pair of the call, in either order
RuleMatches(issue, s) ==
  {s.dep1, s.dep2} = {issue.packages[1], issue.packages[2]}

\* the versions of the call in the order of issue.packages
VersionFor(issue, s, k) ==
  IF s.dep1 = issue.packages[k] THEN s.version1 ELSE s.version2

ConditionOf(issue, s) ==
  RuleCondition(issue.rule, VersionFor(issue, s, 1), VersionFor(issue, s, 2))

\* the first rule for the pair whose condition is true, every rule for the
\* pair before it having answered false
Decisive(s) ==
  {i \in 1..Len(s.table) :
     /\ RuleMatches(s.table[i], s)
     /\ ConditionOf(s.table[i], s) = "true"
     /\ \A j \in 1..(i - 1) :
          RuleMatches(s.table[j], s) => ConditionOf(s.table[j], s) = "false"}

\* the recommended version for issue.packages[k] in the result of the call
RecommendedFor(issue, s, k) ==
  IF s.dep1 = issue.packages[k] THEN s.result.rec1 ELSE s.result.rec2

\* C14: the first rule declared for the pair whose condition is true gives
\* the reason and the recommendation of the call, and the call returns the
\* same for every table that has the same rules up to that one.
C14_FirstMatchWins ==
  scan.called =>
    \A i \in Decisive(scan) :
      LET issue == scan.table[i]
          rec == RuleRecommendation(issue.rule, VersionFor(issue, scan, 1),
                                    VersionFor(issue, scan, 2))
      IN  /\ scan.result.kind = "issue"
          /\ scan.result.rule = issue.rule
          /\ RecommendedFor(issue, scan, 1) = rec[1]
          /\ RecommendedFor(issue, scan, 2) = rec[2]
          /\ \A t \in RuleTables :
               (Len(t) >= i /\ SubSeq(t, 1, i) = SubSeq(scan.table, 1, i)) =>
                 KnownIssueLoop(t, 1, scan.dep1, scan.version1, scan.dep2, scan.version2)
                   = scan.result

C14_Witness ==
  /\ scan.called
  /\ Len(scan.table) = MaxRules
  /\ \A i \in 1..2 : RuleMatches(scan.table[i], scan)
                        /\ ConditionOf(scan.table[i], scan) = "true"
  /\ scan.table[1].rule # scan.table[2].rule
  /\ scan.dep1 = scan.table[1].packages[2]
  /\ scan.result.rule = scan.table[1].rule

\* ------------------------------------------------------------------------
\* Properties of repeated calls
\* ------------------------------------------------------------------------

InfoAt(dep, version) ==
  ResolveVersionInfo(DetailsOf(dependencyDetails, dep), CleanVersion(version))

\* the peer range that the entry of requirer declares on required is not
\* met by the version
PeerUnmet(requirer, requirerVersion, required, version) ==
  /\ InfoAt(requirer, requirerVersion).peers[required] # NoRange
  /\ ~SemverSatisfies(CleanVersion(version),
                      InfoAt(requirer, requirerVersion).peers[required])

\* the peer-range check between dep at its latest version and the other
\* dependency at its declared range fails in one of its two directions
PeerCheckFails(dep, latest, other, range) ==
  /\ DetailsOf(dependencyDetails, dep).fetched
  /\ DetailsOf(dependencyDetails, other).fetched
  /\ InfoAt(dep, latest).found
  /\ InfoAt(other, range).found
  /\ \/ PeerUnmet(other, range, dep, latest)
     \/ PeerUnmet(dep, latest, other, range)

\* the other declared dependencies that fail the check, in declaration order
Blocking(dep, latest) ==
  SelectSeq([k \in 1..Len(dependencies) |-> dependencies[k].name],
            LAMBDA other : other # dep /\ PeerCheckFails(dep, latest, other, RangeOf(other)))

\* C16: every entry of the upgrade analysis has one issue for each other
\* declared dependency that fails the peer-range check against the latest
\* version, in declaration order, and no other issue; canUpgrade is true
\* exactly when there is none.
C16_CanUpgradeIffNoPeerIssue ==
  \A k \in 1..Len(upgradeAnalysis) :
    LET entry == upgradeAnalysis[k]
        blocking == Blocking(entry.name, entry.latestVersion)
    IN  /\ [j \in 1..Len(entry.issues) |-> entry.issues[j].with] = blocking
        /\ entry.canUpgrade <=> (blocking = << >>)

\* an entry that can be upgraded although a known-issue rule speaks against
\* its latest version, next to an entry with a blocking issue
C16_Witness ==
  /\ pc = "done"
  /\ \E k \in 1..Len(upgradeAnalysis) :
       /\ upgradeAnalysis[k].canUpgrade
       /\ \E other \in DepNames \ {upgradeAnalysis[k].name} :
            checkKnownCompatibilityIssues(upgradeAnalysis[k].name,
                                          upgradeAnalysis[k].latestVersion, other,
                                          CleanVersion(RangeOf(other))).kind = "issue"
  /\ \E k \in 1..Len(upgradeAnalysis) :
       /\ ~upgradeAnalysis[k].canUpgrade
       /\ Len(upgradeAnalysis[k].issues) > 0

\* the declared dependencies with an entry of latestVersions whose latest
\* version is greater than the current one
Upgradable ==
  {d \in DepNames :
     \E k \in 1..Len(latestVersions) :
       /\ latestVersions[k].name = d
       /\ SemverValid(latestVersions[k].latest)
       /\ SemverValid(latestVersions[k].current)
       /\ SemverCompare(latestVersions[k].latest, latestVersions[k].current) > 0}

ReactResults ==
  {r \in PairResults :
     /\ ResultNames(r) = {"react", "react-dom"}
     /\ SemverValid(r.pair[2])
     /\ SemverValid(r.pair[4])
     /\ \/ Parse(r.pair[2])[1] # Parse(r.pair[4])[1]
        \/ Parse(r.pair[2])[2] # Parse(r.pair[4])[2]}

\* the greater of the two versions of the result
Greater(r) == IF SemverCompare(r.pair[2], r.pair[4]) > 0 THEN r.pair[2] ELSE r.pair[4]

\* the metadata of both packages was fetched and holds a version entry for
\* the version of each, and neither entry's peer range on the other is unmet
PeerCheckPassed(r) ==
  /\ DetailsOf(dependencyDetails, r.pair[1]).fetched
  /\ DetailsOf(dependencyDetails, r.pair[3]).fetched
  /\ InfoAt(r.pair[1], r.pair[2]).found
  /\ InfoAt(r.pair[3], r.pair[4]).found
  /\ ~PeerUnmet(r.pair[3], r.pair[4], r.pair[1], r.pair[2])
  /\ ~PeerUnmet(r.pair[1], r.pair[2], r.pair[3], r.pair[4])

RuleApplied(r) ==
  /\ ~r.compatible
  /\ r.reason.kind = "react"
  /\ r.hasRecommendation
  /\ r.rec1 = Greater(r)
  /\ r.rec2 = Greater(r)

Appended ==
  SelectSeq(invoked, LAMBDA e : e.outcome = "resolved" /\ e.input # Undefined
                                  /\ e.kind \in {"mutate", "void", "replace", "slow"})

\* C19: when the format-report run has returned, generateReport prints the
\* blocks of all callbacks that appended one and succeeded, in registration
\* order.
C19_ReportsKept ==
  (run.phase = "returned" /\ run.hook = "format-report") =>
    /\ ~additionalReports(run.result, heap).threw
    /\ SelectSeq(additionalReports(run.result, heap).blocks,
                 LAMBDA id : \E k \in 1..Len(Appended) : Appended[k].id = id)
         = [k \in 1..Len(Appended) |-> Appended[k].id]

\* C20: once loadConfig has read a configuration file whose global section
\* sets failOnPluginError and a timeout, the manager holds these two, a run
\* of executeHook does not go on after a callback that failed, and it waits
\* for a callback no longer than that timeout.
C20_GlobalSectionApplied ==
  (config.loaded /\ persisted.present /\ persisted.global.present) =>
    /\ globalConfig.failOnPluginError = persisted.global.failOnPluginError
    /\ globalConfig.pluginTimeout = persisted.global.timeout
    /\ op = "running" =>
         /\ \A i \in 1..Len(invoked) : ~Failed(invoked[i])
         /\ run.phase = "waiting" => run.elapsed <= persisted.global.timeout

\* ------------------------------------------------------------------------
\* Properties of version resolution
\* ------------------------------------------------------------------------

\* the results of pairs with a cleaned version that is no semantic version
InvalidResults ==
  {r \in PairResults : ~SemverValid(r.pair[2]) \/ ~SemverValid(r.pair[4])}

Distance(a, b) == <<Abs(a[1] - b[1]), Abs(a[2] - b[2]), Abs(a[3] - b[3])>>

\* the key a is nearer to the version than the key b
Nearer(a, b, version) ==
  CompareParsed(Distance(Parse(a), Parse(version)),
                Distance(Parse(b), Parse(version))) = -1

\* the valid keys of a document, by position
ValidKeys(details) ==
  {k \in 1..Len(details.versions) : SemverValid(details.versions[k].key)}

\* the dependencies whose version information the pair loop took from
\* findClosestVersion: no entry under the exact cleaned version
ResolvedByClosest ==
  {k \in 1..Len(dependencies) :
     /\ PairLoopOver
     /\ \A j \in 1..Len(dependencies) :
          DetailsOf(dependencyDetails, dependencies[j].name).hasVersions
     /\ ~VersionEntry(DetailsOf(dependencyDetails, dependencies[k].name),
                      CleanVersion(dependencies[k].range)).found}

\* C22: without an entry for the exact cleaned version, findClosestVersion
\* returns the entry of the known version with the smallest distance over
\* major, minor and patch to the requested version, the first in key order
\* among equally near ones, and returns null only if the document has no
\* valid version or the requested version is invalid.
C22_ClosestIsNearest ==
  \A k \in ResolvedByClosest :
    LET details == DetailsOf(dependencyDetails, dependencies[k].name)
        version == CleanVersion(dependencies[k].range)
        closest == findClosestVersion(details, version)
    IN  IF SemverValid(version) /\ ValidKeys(details) # {}
        THEN /\ closest.found
             /\ \A j \in ValidKeys(details) :
                  /\ ~Nearer(details.versions[j].key, closest.key, version)
                  /\ details.versions[j].key = closest.key
                       \/ Nearer(closest.key, details.versions[j].key, version)
                       \/ \E i \in 1..(j - 1) : details.versions[i].key = closest.key
        ELSE ~closest.found

\* the results whose two packages both got version information
ResolvedResults ==
  {r \in PairResults :
     /\ InfoAt(r.pair[1], r.pair[2]).found
     /\ InfoAt(r.pair[3], r.pair[4]).found}

\* the reason of the result is the peer range that requirer declares on
\* required
Names2(r, requirer, requirerVersion, required) ==
  /\ ~r.compatible
  /\ r \in SeqToSet(incompatible)
  /\ r.reason.kind = "peer"
  /\ r.reason.requirer = requirer
  /\ r.reason.required = required
  /\ r.reason.range = InfoAt(requirer, requirerVersion).peers[required]

\* C23: when the resolved entry of either package declares a peer range on
\* the other that the other's cleaned version does not satisfy, the pair is
\* incompatible and the reason names the requiring package, the required
\* package and the range; when both directions are violated, the range that
\* the second package declares on the first is the one reported.
C23_PeerBothDirections ==
  \A r \in ResolvedResults :
    /\ PeerUnmet(r.pair[3], r.pair[4], r.pair[1], r.pair[2])
         => Names2(r, r.pair[3], r.pair[4], r.pair[1])
    /\ (~PeerUnmet(r.pair[3], r.pair[4], r.pair[1], r.pair[2])
        /\ PeerUnmet(r.pair[1], r.pair[2], r.pair[3], r.pair[4]))
         => Names2(r, r.pair[1], r.pair[2], r.pair[3])

C23_Witness ==
  \E r \in ResolvedResults :
    /\ PeerUnmet(r.pair[3], r.pair[4], r.pair[1], r.pair[2])
    /\ PeerUnmet(r.pair[1], r.pair[2], r.pair[3], r.pair[4])
    /\ r.reason.requirer = r.pair[3]

\* the key at position k of the document of dep
KeyAt(dep, k) == DetailsOf(dependencyDetails, dep).versions[k].key

\* the version is the highest of the keys of dep that satisfy the range
HighestSatisfying(version, dep, range) ==
  /\ \E k \in SatisfyingKeys(dep, range) : KeyAt(dep, k) = version
  /\ \A k \in SatisfyingKeys(dep, range) : SemverCompare(version, KeyAt(dep, k)) >= 0

\* the results with a peer-range reason for which a known version of the
\* required package satisfies the range
PeerResults ==
  {r \in SeqToSet(incompatible) :
     r.reason.kind = "peer" /\ SatisfyingKeys(r.reason.required, r.reason.range) # {}}

\* C24: for a peer-range incompatibility the recommendation gives the
\* package that violates the range the highest, in semantic-version order,
\* of its known valid versions that satisfy the range, whatever the order of
\* the keys, and leaves the other package at its current cleaned version.
C24_HighestCompatible ==
  \A r \in PeerResults :
    /\ r.hasRecommendation
    /\ IF r.reason.required = r.pair[1]
       THEN /\ HighestSatisfying(r.rec1, r.pair[1], r.reason.range)
            /\ r.rec2 = r.pair[4]
       ELSE /\ HighestSatisfying(r.rec2, r.pair[3], r.reason.range)
            /\ r.rec1 = r.pair[2]

\* two known versions satisfy the range, the higher one first in key order
C24_Witness ==
  \E r \in PeerResults :
    \E j, k \in SatisfyingKeys(r.reason.required, r.reason.range) :
      /\ j < k
      /\ SemverCompare(KeyAt(r.reason.required, j), KeyAt(r.reason.required, k)) = 1
      /\ r.reason.required = r.pair[1]
      /\ r.rec1 = KeyAt(r.reason.required, j)

\* ------------------------------------------------------------------------
\* Properties of the hook pipeline under timeouts and registration
\* ------------------------------------------------------------------------

\* the callbacks of the run whose work is in progress: the one executeHook
\* waits for, and those it stopped waiting for that have not finished
AtWork ==
  {p.id : p \in late}
    \cup (IF op = "running" /\ run.phase = "waiting" THEN {run.callback.id} ELSE {})

\* C25: within one executeHook run the work of two handlers is never in
\* progress at the same time, also after an earlier handler exceeded its
\* timeout.
C25_NeverConcurrent == Cardinality(AtWork) <= 1

\* the plugin file is registered in the plugins map
LoadedAs(file, pluginMap) ==
  \E n \in DOMAIN pluginMap : pluginMap[n] = file

\* C26: loadPlugin awaits initialize() under the timeout executeHook uses for
\* hook callbacks, so a plugin whose initialization takes less than that
\* bound is not reported as timed out: once instantiated, it is registered.
C26_InitializeWithinBound ==
  [][\A file \in instantiated' \ instantiated :
       (/\ pluginDir[file].hasInit
        /\ pluginDir[file].initialize = "slow"
        /\ WorkOf("replace") < globalConfig.pluginTimeout)
         => /\ InitializeTimeout(globalConfig) = globalConfig.pluginTimeout
            /\ LoadedAs(file, plugins')]_vars

\* the callbacks of the hook of the run that were registered while the run
\* was in progress
RegisteredInRun ==
  {k \in 1..Len(CallbacksOf(hooks, run.hook)) :
     CallbacksOf(hooks, run.hook)[k].owner = "run"}

\* C27: an executeHook call runs exactly the callbacks registered for the
\* hook when the call started: one registered for the hook while the run is
\* in progress is not called in that run.
C27_HandlersAtCallTime ==
  \A e \in 1..Len(invoked) : invoked[e].id \notin RegisteredInRun

\* ------------------------------------------------------------------------
\* Properties of the program
\* ------------------------------------------------------------------------

\* how many times executeHook was called with the hook name
Executions(hookName) ==
  Cardinality({k \in 1..Len(program.executed) : program.executed[k] = hookName})

\* C28: in a full run every pair evaluation goes through the hook pipeline:
\* the check-pair-compatibility hook is executed once for each pair
\* evaluated.
C28_PairHookPerPair ==
  program.stage \in {"check", "done"}
    => Executions("check-pair-compatibility") = Len(compatible) + Len(incompatible)

\* C30: the value each before-* pipeline returns is what the next stage
\* consumes: the path analysed is the projectPath of the output of
\* before-analyze, and checkCompatibility is passed the output of
\* before-compatibility-check.
C30_BeforeHooksConsumed ==
  /\ program.stage \in {"before-check", "call", "check", "done"}
       => /\ program.projectData.defined
          /\ program.analysed = program.projectData.projectPath
  /\ program.stage \in {"check", "done"}
       => program.checked = program.checkData

\* the callbacks of the run that timed out and finished their work later
FinishedLate ==
  {i \in 1..Len(invoked) :
     /\ invoked[i].outcome = "timeout"
     /\ invoked[i].kind = "slow"
     /\ \A p \in late : p.id # invoked[i].id}

\* C29: the value a callback returns after its timeout fired never becomes
\* the data of the pipeline: the next callback is called with the value the
\* timed-out callback was called with, and the result of the run stays the
\* value left by the callbacks that settled in time.
C29_LateValueDropped ==
  \A i \in FinishedLate :
    /\ i < Len(invoked) => invoked[i + 1].input = invoked[i].input
    /\ run.result = ValueAfter(Len(invoked))

C29_Witness ==
  /\ run.phase = "returned"
  /\ 1 \in FinishedLate
  /\ Len(invoked) = 2
  /\ invoked[2].kind = "replace"
  /\ invoked[2].outcome = "resolved"
  /\ run.result = invoked[2].output
  /\ run.result # invoked[1].input

====
